---- MODULE Spec2Model ----
(***************************************************************************)
(* SigPro: event store, consumer and out-of-band authorization workflow.   *)
(*                                                                         *)
(* Strings are sequences of atoms.  An atom is a one-character string      *)
(* (a digit, the blank " ", a letter) or an opaque chunk of non-blank      *)
(* characters (a phone number, a word).  The blank stands for every        *)
(* whitespace character.                                                   *)
(***************************************************************************)
EXTENDS Integers, Sequences, FiniteSets, TLC

VARIABLES
    now,            \* time.time(), in ticks of 1/Hz second
    nTicks,         \* number of clock steps taken (bounds the clock)
    authFile,       \* content of AUTH_FILE (auth_state.json)
    nValidate,      \* number of validate invocations so far
    lastValidate,   \* submitted string and outcome of the latest validate
    nGenerate,      \* number of generate invocations so far
    lastGenerate,   \* code and expiry written by the latest generate
    consumed,       \* TRUE from a successful validate until the next generate
    events,         \* table signal_events: a set of rows
    lastRowid,      \* AUTOINCREMENT counter of signal_events (sqlite_sequence)
    offsets,        \* table consumer_offsets: consumer_name -> last_event_rowid
    inserted,       \* event_ids in the order their rows were inserted
    published,      \* event_ids passed to publish_event so far
    lastPublish,    \* number, event_id and result of the latest publish_event
    lastFetch,      \* number, arguments and result of the latest fetch_events
    pendingFile,    \* content of PENDING_FILE (pending_transcript.json)
    failureLog,     \* lines of AUTH_FAILURE_LOG
    sent,           \* messages handed to `openclaw message send`
    executed,       \* invocations of _execute_in_main
    nTranscribe,    \* number of _transcribe invocations so far
    pc,             \* per consumer process: its position in main()
    rows,           \* per consumer process: the batch fetched by this run
    idx,            \* per consumer process: index in rows of the current event
    runStart,       \* per consumer process: get_offset at the start of the run
    evStart,        \* per consumer process: the files when handling of the current event began
    delivered,      \* per consumer process: ids of the events passed to the handlers or skipped
    voiceLocal,     \* per consumer process: transcript and code held by handle_voice_event
    rawFile,        \* the raw JSONL file: its lines, in order
    offsetFile,     \* content of the collector's offset file (a byte offset), -1 when absent
    lockHolder,     \* the collector processes holding the flock on LOCK_PATH
    kpc,            \* per collector process: its position in main()
    kmode,          \* per collector process: "stdin", "once" or "follow"
    batch,          \* per collector process: the raw objects read and not yet published
    exitStatus,     \* per collector process: exit status of its latest run, -1 when none
    vpc,            \* per validate process: its position in validate()
    vstate,         \* per validate process: the state it loaded
    vsubmitted,     \* per validate process: its argument submitted_code
    nAccepted,      \* number of validate successes since the latest generate
    normalized,     \* the calls of normalize so far: raw object, time, event
    nCrashes,       \* number of times a consumer process was killed
    krun,           \* per collector process: the counters of its run and what it read
    ing,            \* per ingest process: position, records to append, chunks written
    writeLock,      \* the ingest processes holding the flock on LOCK_FILE
    attachmentDir,  \* the files of ATTACHMENT_DIR, sorted by mtime
    lastAttachment, \* content of LAST_ATTACHMENT_FILE, <<>> when absent
    loopPc,         \* position of the running sigpro_loop process in main()
    loopRun         \* the latest run of sigpro_loop: what it found and did

clockVars == <<now, nTicks>>
authVars == <<authFile, nValidate, lastValidate, nGenerate, lastGenerate, consumed>>
storeVars == <<events, lastRowid, inserted, published, lastPublish, lastFetch>>
flowVars == <<pendingFile, failureLog, sent, executed, nTranscribe>>
procVars == <<pc, rows, idx, runStart, evStart, delivered, voiceLocal>>
collVars == <<rawFile, offsetFile, lockHolder, kpc, kmode, batch, exitStatus, krun>>
valVars == <<vpc, vstate, vsubmitted, nAccepted>>
normVars == <<normalized>>
ingVars == <<ing, writeLock>>
loopVars == <<attachmentDir, lastAttachment, loopPc, loopRun>>
sideVars == <<collVars, valVars, normVars, nCrashes, ingVars, loopVars>>

vars == <<now, nTicks, authFile, nValidate, lastValidate, nGenerate, lastGenerate, consumed,
          events, lastRowid, offsets, inserted, published, lastPublish, lastFetch,
          pendingFile, failureLog, sent, executed, nTranscribe,
          pc, rows, idx, runStart, evStart, delivered, voiceLocal,
          rawFile, offsetFile, lockHolder, kpc, kmode, batch, exitStatus,
          vpc, vstate, vsubmitted, nAccepted, normalized, nCrashes, krun, ing, writeLock,
          attachmentDir, lastAttachment, loopPc, loopRun>>

----------------------------------------------------------------------------
(* Bounds *)

Hz == 2                 \* clock ticks per second
MaxTicks == 3           \* clock steps per behaviour of the auth tool alone
MaxAuthCalls == 4       \* generate + validate invocations of the auth tool alone
MaxPublish == 3         \* publish_event calls per behaviour
MaxNormalize == 2       \* normalize calls per behaviour of the normalizer alone
MaxRawLines == 2        \* lines appended to the raw file per behaviour
MaxCrashes == 2         \* kills of a consumer process per behaviour
MaxLoopRuns == 4        \* runs of sigpro_loop per behaviour

----------------------------------------------------------------------------
(* Strings *)

Blank == " "
DigitChars == <<"0", "1", "2", "3", "4", "5", "6", "7", "8", "9">>
Digits == {DigitChars[i] : i \in 1..10}

RECURSIVE lstrip(_)
lstrip(s) ==
    IF s # <<>> /\ Head(s) = Blank THEN lstrip(Tail(s)) ELSE s

RECURSIVE rstrip(_)
rstrip(s) ==
    IF s # <<>> /\ s[Len(s)] = Blank THEN rstrip(SubSeq(s, 1, Len(s) - 1)) ELSE s

\* str.strip(): removes leading and trailing whitespace
strip(s) == rstrip(lstrip(s))

\* f"{n:04d}" for 0 <= n <= 9999
Format04d(n) ==
    << DigitChars[(n \div 1000) + 1], DigitChars[((n \div 100) % 10) + 1],
       DigitChars[((n \div 10) % 10) + 1], DigitChars[(n % 10) + 1] >>

\* the text is four digits and nothing else
IsFourDigits(s) == Len(s) = 4 /\ \A i \in 1..4 : s[i] \in Digits

----------------------------------------------------------------------------
(* auth_manager.py *)

EXPIRY_SEC == 300

NoFile == [kind |-> "nofile"]
EmptyState == [kind |-> "empty"]
CodeState(c, e) == [kind |-> "code", code |-> c, expires_at |-> e]

\* int(time.time())
IntTime(t) == t \div Hz

load_state(file) == IF file.kind = "nofile" THEN EmptyState ELSE file

\* validate(submitted_code) run at time t against the stored file:
\* the outcome and the file it leaves
validate_match_first(file, submitted, t) ==
    LET state == load_state(file) IN
    IF state = EmptyState
    THEN [ok |-> FALSE, message |-> "No active code.", file |-> file]
    ELSE IF strip(submitted) = state.code
    THEN [ok |-> TRUE, message |-> "Code valid.", file |-> EmptyState]
    ELSE IF t > state.expires_at * Hz
    THEN [ok |-> FALSE, message |-> "Code expired.", file |-> file]
    ELSE [ok |-> FALSE, message |-> "Code mismatch.", file |-> file]

validate_no_clear(file, submitted, t) ==
    LET state == load_state(file) IN
    IF state = EmptyState
    THEN [ok |-> FALSE, message |-> "No active code.", file |-> file]
    ELSE IF t > state.expires_at * Hz
    THEN [ok |-> FALSE, message |-> "Code expired.", file |-> file]
    ELSE IF strip(submitted) = state.code
    THEN [ok |-> TRUE, message |-> "Code valid.", file |-> file]
    ELSE [ok |-> FALSE, message |-> "Code mismatch.", file |-> file]

validate_expiry_inclusive(file, submitted, t) ==
    LET state == load_state(file) IN
    IF state = EmptyState
    THEN [ok |-> FALSE, message |-> "No active code.", file |-> file]
    ELSE IF t >= state.expires_at * Hz
    THEN [ok |-> FALSE, message |-> "Code expired.", file |-> file]
    ELSE IF strip(submitted) = state.code
    THEN [ok |-> TRUE, message |-> "Code valid.", file |-> EmptyState]
    ELSE [ok |-> FALSE, message |-> "Code mismatch.", file |-> file]

validate_clear_on_mismatch(file, submitted, t) ==
    LET state == load_state(file) IN
    IF state = EmptyState
    THEN [ok |-> FALSE, message |-> "No active code.", file |-> file]
    ELSE IF t > state.expires_at * Hz
    THEN [ok |-> FALSE, message |-> "Code expired.", file |-> file]
    ELSE IF strip(submitted) = state.code
    THEN [ok |-> TRUE, message |-> "Code valid.", file |-> EmptyState]
    ELSE [ok |-> FALSE, message |-> "Code mismatch.", file |-> EmptyState]

validate_clear_on_expiry(file, submitted, t) ==
    LET state == load_state(file) IN
    IF state = EmptyState
    THEN [ok |-> FALSE, message |-> "No active code.", file |-> file]
    ELSE IF t > state.expires_at * Hz
    THEN [ok |-> FALSE, message |-> "Code expired.", file |-> EmptyState]
    ELSE IF strip(submitted) = state.code
    THEN [ok |-> TRUE, message |-> "Code valid.", file |-> EmptyState]
    ELSE [ok |-> FALSE, message |-> "Code mismatch.", file |-> file]

validate(file, submitted, t) ==
    LET state == load_state(file) IN
    IF state = EmptyState
    THEN [ok |-> FALSE, message |-> "No active code.", file |-> file]
    ELSE IF t > state.expires_at * Hz
    THEN [ok |-> FALSE, message |-> "Code expired.", file |-> file]
    ELSE IF strip(submitted) = state.code
    THEN [ok |-> TRUE, message |-> "Code valid.", file |-> EmptyState]
    ELSE [ok |-> FALSE, message |-> "Code mismatch.", file |-> file]

\* generate() run at time t with random.randint(0, 9999) = n: the file it writes
generate_keep_live(n, t) ==
    IF authFile.kind = "code" /\ t <= authFile.expires_at * Hz
    THEN authFile
    ELSE CodeState(Format04d(n), IntTime(t) + EXPIRY_SEC)

generate(n, t) == CodeState(Format04d(n), IntTime(t) + EXPIRY_SEC)

\* the processes running `auth_manager.py validate` side by side
Validators == {"validate-1", "validate-2"}

\* values of random.randint(0, 9999) that the model draws: for the auth tool
\* alone, and for the consumer's workflow
CodeNumbers == {451, 1234}
FlowCodeNumbers == {1234}

\* strings submitted to validate
Submissions ==
    { Format04d(451), Format04d(1234), <<Blank>> \o Format04d(451) \o <<Blank>>,
      <<"1", "2", "a", "4">>, <<>> }

----------------------------------------------------------------------------
(* The auth tool's effects on the state, with the bookkeeping of the history *)

\* `auth_manager.py validate <submitted>`
DoValidate(submitted) ==
    LET r == validate(authFile, submitted, now) IN
    /\ authFile' = r.file
    /\ nValidate' = nValidate + 1
    /\ lastValidate' = [submitted |-> submitted, ok |-> r.ok, message |-> r.message]
    /\ consumed' = (consumed \/ r.ok)
    /\ UNCHANGED <<nGenerate, lastGenerate>>

\* `auth_manager.py generate`
DoGenerate(n) ==
    /\ authFile' = generate(n, now)
    /\ nGenerate' = nGenerate + 1
    /\ lastGenerate' = [code |-> Format04d(n), expires_at |-> IntTime(now) + EXPIRY_SEC,
                        replaced |-> authFile]
    /\ consumed' = FALSE
    /\ UNCHANGED <<nValidate, lastValidate>>

\* validate(), first part: state = load_state()
ValidateLoad(p, submitted) ==
    /\ vpc[p] = "idle"
    /\ vpc' = [vpc EXCEPT ![p] = "loaded"]
    /\ vstate' = [vstate EXCEPT ![p] = load_state(authFile)]
    /\ vsubmitted' = [vsubmitted EXCEPT ![p] = submitted]
    /\ UNCHANGED <<authVars, nAccepted>>

\* validate(), second part: the checks on the loaded state at the current
\* time, and save_state({}) on success
ValidateDecide(p) ==
    LET r == validate(vstate[p], vsubmitted[p], now) IN
    /\ vpc[p] = "loaded"
    /\ vpc' = [vpc EXCEPT ![p] = "idle"]
    /\ authFile' = IF r.ok THEN r.file ELSE authFile
    /\ nValidate' = nValidate + 1
    /\ lastValidate' = [submitted |-> vsubmitted[p], ok |-> r.ok, message |-> r.message]
    /\ consumed' = (consumed \/ r.ok)
    /\ nAccepted' = IF r.ok THEN nAccepted + 1 ELSE nAccepted
    /\ UNCHANGED <<nGenerate, lastGenerate, vstate, vsubmitted>>

----------------------------------------------------------------------------
(* signal_event_store.py *)

\* the rows of signal_events in ascending id (ORDER BY id ASC)
RECURSIVE OrderById(_)
OrderById(S) ==
    IF S = {} THEN <<>>
    ELSE LET first == CHOOSE r \in S : \A q \in S : r.id <= q.id
         IN <<first>> \o OrderById(S \ {first})

\* LIMIT n: the first n elements; a negative n is no limit (SQLite)
Limit(seq, n) ==
    IF n < 0 \/ n >= Len(seq) THEN seq ELSE SubSeq(seq, 1, n)

\* publish_event(conn, event) on the table `table` with AUTOINCREMENT counter
\* `rowid`: the result, the table and the counter.  The columns kept are
\* those a consumer reads.
publish_event_no_unique(table, rowid, event) ==
    [ inserted |-> TRUE,
      table |-> table \cup {[ id |-> rowid + 1,
                              event_id |-> event.event_id,
                              source_message_id |-> event.source_message_id,
                              sender_id |-> event.sender_id,
                              text |-> event.text,
                              attachments |-> event.attachments ]},
      rowid |-> rowid + 1 ]

publish_event_replace(table, rowid, event) ==
    [ inserted |-> ~ (\E r \in table : r.event_id = event.event_id),
      table |-> {r \in table : r.event_id # event.event_id}
                \cup {[ id |-> rowid + 1,
                        event_id |-> event.event_id,
                        source_message_id |-> event.source_message_id,
                        sender_id |-> event.sender_id,
                        text |-> event.text,
                        attachments |-> event.attachments ]},
      rowid |-> rowid + 1 ]

publish_event(table, rowid, event) ==
    IF \E r \in table : r.event_id = event.event_id
    THEN [inserted |-> FALSE, table |-> table, rowid |-> rowid]
    ELSE [ inserted |-> TRUE,
           table |-> table \cup {[ id |-> rowid + 1,
                                   event_id |-> event.event_id,
                                   source_message_id |-> event.source_message_id,
                                   sender_id |-> event.sender_id,
                                   text |-> event.text,
                                   attachments |-> event.attachments ]},
           rowid |-> rowid + 1 ]

\* get_offset(conn, consumer_name)
get_offset(offs, c) == IF c \in DOMAIN offs THEN offs[c] ELSE 0

\* set_offset(conn, consumer_name, rowid): upsert of the consumer's row
set_offset_insert_only(offs, c, rowid) ==
    IF c \in DOMAIN offs THEN offs
    ELSE [x \in DOMAIN offs \cup {c} |-> IF x = c THEN rowid ELSE offs[x]]

set_offset_one_row(offs, c, rowid) ==
    [x \in DOMAIN offs \cup {c} |-> rowid]

set_offset(offs, c, rowid) ==
    [x \in DOMAIN offs \cup {c} |-> IF x = c THEN rowid ELSE offs[x]]

\* fetch_events(conn, after_rowid, limit)
fetch_events_from_after(table, after_rowid, limit) ==
    Limit(OrderById({r \in table : r.id >= after_rowid}), limit)

fetch_events_skip_first(table, after_rowid, limit) ==
    Limit(OrderById({r \in table : r.id > after_rowid + 1}), limit)

fetch_events(table, after_rowid, limit) ==
    Limit(OrderById({r \in table : r.id > after_rowid}), limit)

----------------------------------------------------------------------------
(* Events *)

TARGET_USER == <<"+19412907826">>
OtherUser == <<"+1999">>

VOICE_EXTENSIONS == {".m4a", ".opus", ".ogg", ".oga", ".aac", ".mp3", ".wav", ".webm"}

\* the atoms that are file suffixes
SuffixAtoms == VOICE_EXTENSIONS \cup {".OGG", ".jpg"}

\* str.lower() of a suffix
lower(a) == IF a = ".OGG" THEN ".ogg" ELSE a

\* Path(name).suffix
suffix(name) ==
    IF Len(name) >= 2 /\ name[Len(name)] \in SuffixAtoms THEN name[Len(name)] ELSE ""

\* the files that exist under the attachment directory
ExistingPaths == { <<"/att/", "v1", ".ogg">>, <<"/att/", "v2", ".OGG">>, <<"/att/", "p1", ".jpg">> }

Voice1 == [path |-> <<"/att/", "v1", ".ogg">>, filename |-> <<>>]
Voice2 == [path |-> <<"/att/", "v2", ".OGG">>, filename |-> <<"memo", ".OGG">>]
Photo == [path |-> <<"/att/", "p1", ".jpg">>, filename |-> <<"p1", ".jpg">>]
GoneVoice == [path |-> <<"/att/", "v9", ".ogg">>, filename |-> <<"v9", ".ogg">>]

\* an element of the attachments list that is a JSON string, not an object:
\* normalize keeps any list as it is
StringAtt == [path |-> <<>>, filename |-> <<>>, string |-> <<"v1", ".ogg">>]

\* what the speech of an audio file says; the transcription tool writes it
\* followed by a newline
Speech(path) ==
    IF path = Voice1.path THEN <<"open", Blank, "door">> ELSE <<"lights">>

Ev(eid, sender, text, atts) ==
    [event_id |-> eid, source_message_id |-> eid, sender_id |-> sender,
     text |-> text, attachments |-> atts]

\* normalized events the collector publishes
EventPool ==
    { Ev("v1", TARGET_USER, <<>>, <<Voice1>>),
      Ev("v2", TARGET_USER, Format04d(1234), <<Photo, Voice2>>),
      Ev("c1", TARGET_USER, Format04d(451), <<>>),
      Ev("c2", TARGET_USER, <<Blank>> \o Format04d(1234) \o <<Blank>>, <<>>),
      Ev("t1", TARGET_USER, <<"1", "2", "a", "4">>, <<GoneVoice>>),
      Ev("u1", OtherUser, Format04d(1234), <<Voice1>>),
      Ev("u2", <<Blank>> \o TARGET_USER, Format04d(1234), <<>>) }

----------------------------------------------------------------------------
(* signal_inbound_collector.py: normalization *)

\* str(n) of an integer n >= 0
RECURSIVE Dec(_)
Dec(n) ==
    IF n < 10 THEN <<DigitChars[n + 1]>>
    ELSE Dec(n \div 10) \o <<DigitChars[(n % 10) + 1]>>

\* Python's `a or b`: an absent key, None, "" and 0 are all false; a string
\* that is absent or empty is <<>>, a number that is absent is 0
OrStr(a, b) == IF a # <<>> THEN a ELSE b
OrInt(a, b) == IF a # 0 THEN a ELSE b

\* a raw object: the keys the collector reads, and `note` for the rest of
\* the provider's payload
Raw(smid, id, received_at, timestamp, sender, sender_id, source, message_text, text, atts, note) ==
    [source_message_id |-> smid, id |-> id, received_at |-> received_at,
     timestamp |-> timestamp, sender |-> sender, sender_id |-> sender_id,
     source |-> source, message_text |-> message_text, text |-> text,
     attachments |-> atts, note |-> note]

RECURSIVE DumpPaths(_)
DumpPaths(atts) ==
    IF atts = <<>> THEN <<>>
    ELSE <<"{">> \o Head(atts).path \o <<",">> \o Head(atts).filename \o <<"}">>
         \o DumpPaths(Tail(atts))

\* json.dumps(raw_obj, sort_keys=True): every key with its value
JsonDump(raw) ==
    <<"{", "attachments:">> \o DumpPaths(raw.attachments)
    \o <<"id:">> \o raw.id
    \o <<"message.text:">> \o raw.message_text
    \o <<"note:">> \o raw.note
    \o <<"received_at:">> \o Dec(raw.received_at)
    \o <<"sender.id:">> \o raw.sender
    \o <<"sender_id:">> \o raw.sender_id
    \o <<"source:">> \o raw.source
    \o <<"source_message_id:">> \o raw.source_message_id
    \o <<"text:">> \o raw.text
    \o <<"timestamp:">> \o Dec(raw.timestamp)
    \o <<"}">>

\* hashlib.sha256(seed).hexdigest(): a function of the seed without collisions
sha256(seed) == <<"sha256">> \o seed

\* stable_event_id(raw_obj) run at time t
stable_event_id(raw, t) ==
    LET src_id == OrStr(raw.source_message_id, raw.id)
        ts == Dec(OrInt(OrInt(raw.received_at, raw.timestamp), IntTime(t)))
        sender == OrStr(raw.sender, raw.sender_id)
        text == OrStr(raw.message_text, raw.text)
        seed == src_id \o <<"|">> \o ts \o <<"|">> \o sender \o <<"|">> \o text
    IN IF seed = <<"|", "|", "|">> THEN sha256(JsonDump(raw)) ELSE sha256(seed)

\* normalize(raw_obj) run at time t: the columns of the event that
\* publish_event stores and a consumer reads
normalize(raw, t) ==
    [event_id |-> stable_event_id(raw, t),
     received_at |-> OrInt(OrInt(raw.received_at, raw.timestamp), IntTime(t)),
     source_message_id |-> OrStr(raw.source_message_id, raw.id),
     sender_id |-> OrStr(OrStr(raw.sender, raw.sender_id), raw.source),
     text |-> OrStr(raw.message_text, raw.text),
     attachments |-> raw.attachments]

\* the four fields the event_id is derived from, as the raw object gives them
RawKey(raw) ==
    << OrStr(raw.source_message_id, raw.id), OrInt(raw.received_at, raw.timestamp),
       OrStr(raw.sender, raw.sender_id), OrStr(raw.message_text, raw.text) >>

EmptyKey == << <<>>, 0, <<>>, <<>> >>

Stamp == 1700000000

\* raw objects: the same message under the canonical keys and under the
\* provider's aliases, the message without a timestamp, another text, and
\* two different objects without any of the four fields
RawPool ==
    { Raw(<<"42">>, <<>>, Stamp, 0, <<"+1555">>, <<>>, <<>>, <<"hi">>, <<>>, <<>>, <<>>),
      Raw(<<>>, <<"42">>, 0, Stamp, <<>>, <<"+1555">>, <<"+1555">>, <<>>, <<"hi">>, <<>>, <<>>),
      Raw(<<"42">>, <<>>, 0, 0, <<"+1555">>, <<>>, <<>>, <<"hi">>, <<>>, <<>>, <<>>),
      Raw(<<"42">>, <<>>, Stamp, 0, <<"+1555">>, <<>>, <<>>, <<"bye">>, <<>>, <<>>, <<>>),
      Raw(<<>>, <<>>, 0, 0, <<>>, <<>>, <<>>, <<>>, <<>>, <<>>, <<"typing">>),
      Raw(<<>>, <<>>, 0, 0, <<>>, <<>>, <<>>, <<>>, <<>>, <<>>, <<"receipt">>) }

\* one call of normalize
Normalize(raw) ==
    /\ Len(normalized) < MaxNormalize
    /\ normalized' = Append(normalized,
          [raw |-> raw, at |-> now, event |-> normalize(raw, now)])
    /\ UNCHANGED <<clockVars, authVars, storeVars, offsets, flowVars, procVars,
                   collVars, valVars, nCrashes, ingVars, loopVars>>

----------------------------------------------------------------------------
(* signal_inbound_collector.py: the collector processes *)

Collectors == {"collector-1", "collector-2"}

\* a line of the raw file: a JSON object, or text that is not JSON; `bytes`
\* is its length with the newline
JsonLine(raw) == [kind |-> "json", bytes |-> Len(JsonDump(raw)) + 1, obj |-> raw]
JunkLine == [kind |-> "junk", bytes |-> 3, obj |-> <<>>]

\* the messages that reach the raw file: two messages with their timestamps
CollectorRaws ==
    { Raw(<<"42">>, <<>>, Stamp, 0, <<"+1555">>, <<>>, <<>>, <<"hi">>, <<>>, <<>>, <<>>),
      Raw(<<"43">>, <<>>, Stamp + 1, 0, TARGET_USER, <<>>, <<>>, <<>>, <<>>, <<Voice1>>, <<>>) }

LinePool == {JsonLine(r) : r \in CollectorRaws} \cup {JunkLine}

\* a line that is valid JSON and not an object, such as [1]
ListLine == [kind |-> "array", bytes |-> 4, obj |-> <<>>]

\* the lines on stdin of a collector started with --stdin-jsonl
StdinInputs ==
    LET a == CHOOSE r \in CollectorRaws : r.source_message_id = <<"42">>
        b == CHOOSE r \in CollectorRaws : r.source_message_id = <<"43">>
    IN { <<>>, <<JsonLine(b), JunkLine, ListLine, JsonLine(a)>> }

\* the raw file exists and holds nothing
EmptyFile == <<[kind |-> "empty", bytes |-> 0, obj |-> <<>>]>>

\* published, duplicates of main() as a run starts; with them the number of
\* records the run has read, whether ingest_file_once found the offset
\* beyond the end of the file, and the lines the run found on stdin
NoRun == [published |-> 0, duplicates |-> 0, read |-> 0, rotated |-> FALSE, stdin |-> <<>>]

\* size in bytes of the first n lines of the file
RECURSIVE SizeOf(_, _)
SizeOf(file, n) == IF n = 0 THEN 0 ELSE SizeOf(file, n - 1) + file[n].bytes

\* path.stat().st_size
st_size(file) == SizeOf(file, Len(file))

\* read_offset(path): 0 when the file is absent
read_offset(file) == IF file < 0 THEN 0 ELSE file

\* the JSON objects of the lines that start at or after the byte `offset`
RECURSIVE ObjectsFrom_stop_at_junk(_, _, _)
ObjectsFrom_stop_at_junk(file, offset, i) ==
    IF i > Len(file) THEN <<>>
    ELSE IF SizeOf(file, i - 1) < offset
    THEN ObjectsFrom_stop_at_junk(file, offset, i + 1)
    ELSE IF file[i].kind = "json"
    THEN <<file[i].obj>> \o ObjectsFrom_stop_at_junk(file, offset, i + 1)
    ELSE <<>>

RECURSIVE ObjectsFrom(_, _, _)
ObjectsFrom(file, offset, i) ==
    IF i > Len(file) THEN <<>>
    ELSE IF SizeOf(file, i - 1) >= offset /\ file[i].kind = "json"
    THEN <<file[i].obj>> \o ObjectsFrom(file, offset, i + 1)
    ELSE ObjectsFrom(file, offset, i + 1)

\* iter_jsonl_from_stdin(): the JSON objects among the lines of stdin
iter_jsonl_from_stdin(lines) == ObjectsFrom(lines, 0, 1)

\* ingest_file_once(path, offset_path): the batch and the offset file it
\* leaves; a raw file without lines does not exist yet
ingest_file_once_no_rewind(file, offsetfile) ==
    IF file = <<>> THEN [out |-> <<>>, offsetfile |-> offsetfile]
    ELSE [out |-> ObjectsFrom(file, read_offset(offsetfile), 1),
          offsetfile |-> st_size(file)]

ingest_file_once(file, offsetfile) ==
    IF file = <<>> THEN [out |-> <<>>, offsetfile |-> offsetfile]
    ELSE LET offset == IF read_offset(offsetfile) > st_size(file) THEN 0
                       ELSE read_offset(offsetfile)
         IN [out |-> ObjectsFrom(file, offset, 1), offsetfile |-> st_size(file)]

\* acquire_lock_or_exit: flock(LOCK_EX | LOCK_NB) by process k while the
\* processes in `holders` hold the lock
acquire_lock_always(holders, k) == [acquired |-> TRUE, holders |-> holders \cup {k}]

acquire_lock_or_exit(holders, k) ==
    IF holders \subseteq {k}
    THEN [acquired |-> TRUE, holders |-> holders \cup {k}]
    ELSE [acquired |-> FALSE, holders |-> holders]

Stopped == {"idle", "done", "exited", "crashed"}

\* signal_jsonl_ingest.py appends one line to the raw file
AppendRawLine(line) ==
    /\ Len(rawFile) < MaxRawLines
    /\ rawFile' = IF rawFile = EmptyFile THEN <<line>> ELSE Append(rawFile, line)
    /\ UNCHANGED <<offsetFile, lockHolder, kpc, kmode, batch, exitStatus, krun>>
    /\ UNCHANGED <<clockVars, authVars, storeVars, offsets, flowVars, procVars, valVars, normVars, nCrashes, ingVars, loopVars>>

\* main(): a collector process starts in file mode and takes the lock or exits 1
CollectorStart(k, mode) ==
    LET l == acquire_lock_or_exit(lockHolder, k) IN
    /\ kpc[k] \in Stopped
    /\ lockHolder' = l.holders
    /\ kmode' = [kmode EXCEPT ![k] = mode]
    /\ IF l.acquired
       THEN /\ kpc' = [kpc EXCEPT ![k] = "ingest"]
            /\ exitStatus' = [exitStatus EXCEPT ![k] = 0 - 1]
       ELSE /\ kpc' = [kpc EXCEPT ![k] = "exited"]
            /\ exitStatus' = [exitStatus EXCEPT ![k] = 1]
    /\ batch' = [batch EXCEPT ![k] = <<>>]
    /\ krun' = [krun EXCEPT ![k] = NoRun]
    /\ UNCHANGED <<rawFile, offsetFile>>
    /\ UNCHANGED <<clockVars, authVars, storeVars, offsets, flowVars, procVars, valVars, normVars, nCrashes, ingVars, loopVars>>

\* main(): a collector process starts with --stdin-jsonl: the lock, then the
\* records of stdin
CollectorStartStdin(k, input) ==
    LET l == acquire_lock_or_exit(lockHolder, k) IN
    /\ kpc[k] \in Stopped
    /\ lockHolder' = l.holders
    /\ kmode' = [kmode EXCEPT ![k] = "stdin"]
    /\ IF l.acquired
       THEN /\ kpc' = [kpc EXCEPT ![k] = "publish"]
            /\ exitStatus' = [exitStatus EXCEPT ![k] = 0 - 1]
            /\ batch' = [batch EXCEPT ![k] = iter_jsonl_from_stdin(input)]
            /\ krun' = [krun EXCEPT ![k] =
                  [NoRun EXCEPT !.stdin = input,
                                !.read = Len(iter_jsonl_from_stdin(input))]]
       ELSE /\ kpc' = [kpc EXCEPT ![k] = "exited"]
            /\ exitStatus' = [exitStatus EXCEPT ![k] = 1]
            /\ batch' = [batch EXCEPT ![k] = <<>>]
            /\ krun' = [krun EXCEPT ![k] = NoRun]
    /\ UNCHANGED <<rawFile, offsetFile>>
    /\ UNCHANGED <<clockVars, authVars, storeVars, offsets, flowVars, procVars, valVars, normVars, nCrashes, ingVars, loopVars>>

\* main(): batch, _ = ingest_file_once(in_path, offset_path)
IngestFileOnce(k) ==
    LET r == ingest_file_once(rawFile, offsetFile) IN
    /\ kpc[k] = "ingest"
    /\ batch' = [batch EXCEPT ![k] = r.out]
    /\ offsetFile' = r.offsetfile
    /\ kpc' = [kpc EXCEPT ![k] = "publish"]
    /\ krun' = [krun EXCEPT ![k].read = @ + Len(r.out),
                            ![k].rotated = (rawFile # <<>>
                                            /\ read_offset(offsetFile) > st_size(rawFile))]
    /\ UNCHANGED <<rawFile, lockHolder, kmode, exitStatus>>
    /\ UNCHANGED <<clockVars, authVars, storeVars, offsets, flowVars, procVars, valVars, normVars, nCrashes, ingVars, loopVars>>

\* main(): normalize and publish the next raw object of the batch
PublishNext(k) ==
    /\ kpc[k] = "publish"
    /\ batch[k] # <<>>
    /\ lastPublish.n < MaxPublish
    /\ LET event == normalize(Head(batch[k]), now)
           r == publish_event(events, lastRowid, event)
       IN /\ events' = r.table
          /\ lastRowid' = r.rowid
          /\ inserted' = IF r.inserted THEN Append(inserted, event.event_id) ELSE inserted
          /\ published' = published \cup {event.event_id}
          /\ lastPublish' = [n |-> lastPublish.n + 1, event_id |-> event.event_id,
                             inserted |-> r.inserted]
          /\ krun' = [krun EXCEPT ![k].published = IF r.inserted THEN @ + 1 ELSE @,
                                  ![k].duplicates = IF r.inserted THEN @ ELSE @ + 1]
    /\ batch' = [batch EXCEPT ![k] = Tail(batch[k])]
    /\ UNCHANGED <<rawFile, offsetFile, lockHolder, kpc, kmode, exitStatus>>
    /\ UNCHANGED <<clockVars, authVars, offsets, lastFetch, flowVars, procVars, valVars, normVars, nCrashes, ingVars, loopVars>>

\* main(): the batch is published; poll again with --follow, else return 0
\* (the lock is released when the process ends)
EndBatch(k) ==
    /\ kpc[k] = "publish"
    /\ batch[k] = <<>>
    /\ IF kmode[k] = "follow"
       THEN /\ kpc' = [kpc EXCEPT ![k] = "ingest"]
            /\ UNCHANGED <<lockHolder, exitStatus>>
            /\ UNCHANGED krun
       ELSE /\ kpc' = [kpc EXCEPT ![k] = "done"]
            /\ lockHolder' = lockHolder \ {k}
            /\ exitStatus' = [exitStatus EXCEPT ![k] = 0]
            /\ krun' = [krun EXCEPT ![k] = NoRun]
    /\ UNCHANGED <<rawFile, offsetFile, kmode, batch>>
    /\ UNCHANGED <<clockVars, authVars, storeVars, offsets, flowVars, procVars, valVars, normVars, nCrashes, ingVars, loopVars>>

\* the process is killed at any point past the lock: its lock is released
\* and what it held in memory is gone
CollectorCrash(k) ==
    /\ kpc[k] \in {"ingest", "publish"}
    /\ kpc' = [kpc EXCEPT ![k] = "crashed"]
    /\ lockHolder' = lockHolder \ {k}
    /\ batch' = [batch EXCEPT ![k] = <<>>]
    /\ exitStatus' = [exitStatus EXCEPT ![k] = 137]
    /\ krun' = [krun EXCEPT ![k] = NoRun]
    /\ UNCHANGED <<rawFile, offsetFile, kmode>>
    /\ UNCHANGED <<clockVars, authVars, storeVars, offsets, flowVars, procVars, valVars, normVars, nCrashes, ingVars, loopVars>>

\* the raw file is rotated: moved away, or truncated to nothing
RotateRaw(file) ==
    /\ rawFile \notin {<<>>, EmptyFile}
    /\ file \in {<<>>, EmptyFile}
    /\ rawFile' = file
    /\ UNCHANGED <<offsetFile, lockHolder, kpc, kmode, batch, exitStatus, krun>>
    /\ UNCHANGED <<clockVars, authVars, storeVars, offsets, flowVars, procVars, valVars, normVars, nCrashes, ingVars, loopVars>>

----------------------------------------------------------------------------
(* signal_jsonl_ingest.py: the ingest processes *)

Ingesters == {"ingest-1", "ingest-2"}

\* per process: its position in main(), the objects parse_input_text gave,
\* the number of chunks it has written, the number of lines of the raw file
\* when it took the lock, and the line its latest chunk went to
NoIngest == [pc |-> "idle", objs |-> <<>>, chunks |-> 0, start |-> 0, at |-> 0]

\* what parse_input_text returns for the inputs of a run
IngestInputs ==
    LET a == CHOOSE r \in CollectorRaws : r.source_message_id = <<"42">>
        b == CHOOSE r \in CollectorRaws : r.source_message_id = <<"43">>
    IN { <<>>, <<a>>, <<b, a>> }

\* a record of which only the first part has reached the file, and what
\* the parts of two records written into each other leave
PartialLine(raw) == [kind |-> "partial", bytes |-> 1, obj |-> raw]
TornLine == [kind |-> "torn", bytes |-> 1, obj |-> <<>>]

\* lock_fd(path): flock(LOCK_EX) returns to process p once no other process
\* in `holders` holds the lock
lock_fd_no_wait(holders, p) == TRUE

lock_fd(holders, p) == holders \subseteq {p}

\* main(): the input is read and parsed
IngestStart(p, objs) ==
    /\ ing[p].pc = "idle"
    /\ ing' = [ing EXCEPT ![p] = [NoIngest EXCEPT !.pc = "waiting", !.objs = objs]]
    /\ UNCHANGED <<writeLock, collVars>>
    /\ UNCHANGED <<clockVars, authVars, storeVars, offsets, flowVars, procVars, valVars, normVars, nCrashes, loopVars>>

\* main(): fd = lock_fd(LOCK_FILE), and the open of the raw file for append
IngestLock(p) ==
    /\ ing[p].pc = "waiting"
    /\ lock_fd(writeLock, p)
    /\ writeLock' = writeLock \cup {p}
    /\ ing' = [ing EXCEPT ![p].pc = "writing", ![p].start = Len(rawFile)]
    /\ UNCHANGED collVars
    /\ UNCHANGED <<clockVars, authVars, storeVars, offsets, flowVars, procVars, valVars, normVars, nCrashes, loopVars>>

\* main(): f.write of a record reaches the file in two parts, as the buffer
\* of the file object is flushed
IngestWrite(p) ==
    LET r == ing[p]
        raw == r.objs[(r.chunks \div 2) + 1]
    IN
    /\ r.pc = "writing"
    /\ r.chunks < 2 * Len(r.objs)
    /\ IF r.chunks % 2 = 0
       THEN /\ rawFile' = Append(rawFile, PartialLine(raw))
            /\ ing' = [ing EXCEPT ![p].chunks = @ + 1, ![p].at = Len(rawFile) + 1]
       ELSE /\ rawFile' = IF r.at = Len(rawFile) /\ rawFile[r.at] = PartialLine(raw)
                          THEN [rawFile EXCEPT ![r.at] = JsonLine(raw)]
                          ELSE Append(rawFile, TornLine)
            /\ ing' = [ing EXCEPT ![p].chunks = @ + 1]
    /\ UNCHANGED <<offsetFile, lockHolder, kpc, kmode, batch, exitStatus, krun, writeLock>>
    /\ UNCHANGED <<clockVars, authVars, storeVars, offsets, flowVars, procVars, valVars, normVars, nCrashes, loopVars>>

\* main(): the file is closed, the summary printed, and the process ends,
\* which releases the lock
IngestExit(p) ==
    /\ ing[p].pc = "writing"
    /\ ing[p].chunks = 2 * Len(ing[p].objs)
    /\ ing' = [ing EXCEPT ![p].pc = "done"]
    /\ writeLock' = writeLock \ {p}
    /\ UNCHANGED collVars
    /\ UNCHANGED <<clockVars, authVars, storeVars, offsets, flowVars, procVars, valVars, normVars, nCrashes, loopVars>>

----------------------------------------------------------------------------
(* signal_event_consumer_sigpro.py *)

Consumers == {"sigpro-main"}

\* two consumer processes with their own offsets over the same log
RaceConsumers == {"sigpro-main", "sigpro-aux"}

NoPending == [kind |-> "nofile"]

\* the pending file between the open and the write of write_text: it exists
\* and holds nothing
EmptyPending == [kind |-> "empty"]

\* handle_code_event: the transcript read from the pending file; "" when
\* the content is not JSON
pending_transcript(file) ==
    IF file.kind = "pending" THEN strip(file.transcript) ELSE <<>>

\* the transcription tool, or the auth tool, was not run for the event
NotRun == <<"not run">>

NoSnapshot ==
    [pending |-> NoPending, auth |-> NoFile, nTranscribe |-> 0, nGenerate |-> 0,
     nLog |-> 0, nSent |-> 0, out |-> NotRun, generate |-> "not run"]

\* the files and the counts as handle_voice_event finds them, with what the
\* transcription tool left for the event and how the auth tool's generate ended
Snapshot(out, gen) ==
    [pending |-> pendingFile, auth |-> authFile, nTranscribe |-> nTranscribe,
     nGenerate |-> nGenerate, nLog |-> Len(failureLog), nSent |-> Len(sent),
     out |-> out, generate |-> gen]
NoLocal == [transcript |-> <<>>, source_file |-> <<>>, code |-> <<>>]

\* CODE_RE.match(text): <<group(1)>>, or <<>> when the text does not match
\* ^\s*(\d{4})\s*$
CODE_RE_match_any4(text) ==
    IF Len(strip(text)) = 4 THEN <<strip(text)>> ELSE <<>>

CODE_RE_match(text) ==
    IF IsFourDigits(strip(text)) THEN <<strip(text)>> ELSE <<>>

\* is_from_target_sender(row)
is_from_target_sender_everyone(row) == TRUE

is_from_target_sender(row) == strip(row.sender_id) = TARGET_USER

\* the attachment is named like a voice file
has_voice_suffix(a) ==
    lower(suffix(IF a.filename # <<>> THEN a.filename ELSE a.path)) \in VOICE_EXTENSIONS

\* the attachment is one the loop of handle_voice_event does not skip
is_voice_file(a) ==
    /\ has_voice_suffix(a)
    /\ a.path # <<>>
    /\ a.path \in ExistingPaths

\* the first attachment that handle_voice_event transcribes, as <<a>>, or <<>>
RECURSIVE first_voice(_)
first_voice(atts) ==
    IF atts = <<>> THEN <<>>
    ELSE IF is_voice_file(Head(atts)) THEN <<Head(atts)>>
    ELSE first_voice(Tail(atts))

\* the attachment is a JSON object, so a.get exists
is_dict(a) == "string" \notin DOMAIN a

\* the loop of handle_voice_event reaches an attachment without .get before
\* it reaches a voice file
RECURSIVE voice_loop_raises(_)
voice_loop_raises(atts) ==
    IF atts = <<>> THEN FALSE
    ELSE IF ~ is_dict(Head(atts)) THEN TRUE
    ELSE IF is_voice_file(Head(atts)) THEN FALSE
    ELSE voice_loop_raises(Tail(atts))

\* handle_voice_event raises AttributeError
voice_event_raises(atts, pending) ==
    atts # <<>> /\ pending = NoPending /\ voice_loop_raises(atts)

\* handle_voice_event returns before transcribing anything
voice_event_skipped_no_pending_check(atts, pending) ==
    atts = <<>> \/ first_voice(atts) = <<>>

voice_event_skipped_pending_expires(atts, pending) ==
    \/ atts = <<>>
    \/ /\ pending # NoPending
       /\ ~ (pending.kind = "pending"
               /\ now > (pending.created_at + pending.expires_in_sec) * Hz)
    \/ first_voice(atts) = <<>>

voice_event_skipped(atts, pending) ==
    atts = <<>> \/ pending # NoPending \/ first_voice(atts) = <<>>

\* _transcribe(path): the transcript, or <<>> for None.  `out` is what the
\* transcription tool left: "fail" for a non-zero exit or a missing file.
TranscribeFailed == <<"fail">>
transcribe_no_strip(out) == IF out = TranscribeFailed THEN <<>> ELSE out

transcribe(out) == IF out = TranscribeFailed THEN <<>> ELSE strip(out)

\* what the transcription tool can leave for an audio file
TranscribeOutputs(path) == {TranscribeFailed, <<Blank>>, Speech(path) \o <<Blank>>}

\* _store_pending_transcript(transcript, source_file, source_message_id)
store_pending(transcript, source_file, source_message_id, t) ==
    [kind |-> "pending", transcript |-> transcript, source_file |-> source_file,
     source_message_id |-> source_message_id, created_at |-> IntTime(t),
     expires_in_sec |-> 300]

\* Path(path).name
basename(path) == SubSeq(path, 2, Len(path))

\* _validate_code(code): (ok, reason) from the JSON the auth tool printed
validate_code_any_output(r) == [ok |-> TRUE, reason |-> r.message]

validate_code(r) == [ok |-> r.ok, reason |-> r.message]

\* what _execute_in_main can return: the assistant's text or a fallback
ExecResults == {"assistant text", "no output returned", "output not parsed"}

LogEntry(reason, code, message_id) ==
    [ts |-> IntTime(now), reason |-> reason, code |-> code, message_id |-> message_id]

Msg(channel, kind, arg) == [channel |-> channel, kind |-> kind, arg |-> arg]

Row(c) == rows[c][idx[c]]

\* main(): get_offset and fetch_events
StartRun(c, limit) ==
    /\ pc[c] \in {"idle", "done", "failed"}
    /\ rows' = [rows EXCEPT ![c] = fetch_events(events, get_offset(offsets, c), limit)]
    /\ idx' = [idx EXCEPT ![c] = 1]
    /\ runStart' = [runStart EXCEPT ![c] = get_offset(offsets, c)]
    /\ pc' = [pc EXCEPT ![c] = "loop"]
    /\ UNCHANGED <<clockVars, authVars, storeVars, offsets, flowVars, evStart, delivered, voiceLocal, sideVars>>

\* main(): an event that is not from the target sender
SkipEvent(c) ==
    /\ pc[c] = "loop"
    /\ idx[c] <= Len(rows[c])
    /\ ~ is_from_target_sender(Row(c))
    /\ offsets' = set_offset(offsets, c, Row(c).id)
    /\ idx' = [idx EXCEPT ![c] = idx[c] + 1]
    /\ delivered' = [delivered EXCEPT ![c] = @ \cup {Row(c).id}]
    /\ UNCHANGED <<clockVars, authVars, storeVars, flowVars, pc, rows, runStart, evStart,
                   voiceLocal, sideVars>>

\* handle_voice_event(row): returns without transcribing
VoiceSkipped(c) ==
    /\ voice_event_skipped(Row(c).attachments, pendingFile)
    /\ evStart' = [evStart EXCEPT ![c] = Snapshot(NotRun, "not run")]
    /\ UNCHANGED <<authVars, flowVars>>

\* handle_voice_event(row): transcription fails
VoiceTranscribeFails(c) ==
    /\ ~ voice_event_skipped(Row(c).attachments, pendingFile)
    /\ \E out \in TranscribeOutputs(first_voice(Row(c).attachments)[1].path) :
          /\ transcribe(out) = <<>>
          /\ evStart' = [evStart EXCEPT ![c] = Snapshot(out, "not run")]
    /\ nTranscribe' = nTranscribe + 1
    /\ UNCHANGED <<authVars, pendingFile, failureLog, sent, executed>>

\* handle_voice_event(row): the auth tool fails to produce a code
VoiceGenerateFails(c) ==
    /\ ~ voice_event_skipped(Row(c).attachments, pendingFile)
    /\ \E out \in TranscribeOutputs(first_voice(Row(c).attachments)[1].path) :
          /\ transcribe(out) # <<>>
          /\ evStart' = [evStart EXCEPT ![c] = Snapshot(out, "failed")]
    /\ nTranscribe' = nTranscribe + 1
    /\ failureLog' = Append(failureLog,
          LogEntry("code_generation_failed", <<>>, Row(c).source_message_id))
    /\ UNCHANGED <<authVars, pendingFile, sent, executed>>

\* handle_voice_event(row): code issued, pending transcript stored, user notified
VoiceIssues(c) ==
    LET a == first_voice(Row(c).attachments)[1] IN
    /\ ~ voice_event_skipped(Row(c).attachments, pendingFile)
    /\ \E out \in TranscribeOutputs(a.path), n \in FlowCodeNumbers :
          /\ transcribe(out) # <<>>
          /\ evStart' = [evStart EXCEPT ![c] = Snapshot(out, "ok")]
          /\ DoGenerate(n)
          /\ pendingFile' = store_pending(transcribe(out),
                                IF a.filename # <<>> THEN a.filename ELSE basename(a.path),
                                Row(c).source_message_id, now)
          /\ sent' = sent \o << Msg("whatsapp", "auth_code", Format04d(n)),
                                Msg("signal", "code_required", <<>>) >>
    /\ nTranscribe' = nTranscribe + 1
    /\ UNCHANGED <<failureLog, executed>>

\* main(): handle_voice_event(row) for an event from the target sender
HandleVoiceEvent(c) ==
    /\ pc[c] = "loop"
    /\ idx[c] <= Len(rows[c])
    /\ is_from_target_sender(Row(c))
    /\ ~ voice_event_raises(Row(c).attachments, pendingFile)
    /\ \/ VoiceSkipped(c)
       \/ VoiceTranscribeFails(c)
       \/ VoiceGenerateFails(c)
       \/ VoiceIssues(c)
    /\ pc' = [pc EXCEPT ![c] = "code"]
    /\ delivered' = [delivered EXCEPT ![c] = @ \cup {Row(c).id}]
    /\ UNCHANGED <<clockVars, storeVars, offsets, rows, idx, runStart, voiceLocal, sideVars>>

\* main(): handle_voice_event(row) raises; nothing catches the exception, the
\* process ends with a traceback before handle_code_event and set_offset
VoiceRaises(c) ==
    /\ pc[c] = "loop"
    /\ idx[c] <= Len(rows[c])
    /\ is_from_target_sender(Row(c))
    /\ voice_event_raises(Row(c).attachments, pendingFile)
    /\ pc' = [pc EXCEPT ![c] = "failed"]
    /\ delivered' = [delivered EXCEPT ![c] = @ \cup {Row(c).id}]
    /\ UNCHANGED <<clockVars, authVars, storeVars, offsets, flowVars, rows, idx, runStart,
                   evStart, voiceLocal, sideVars>>

\* handle_voice_event(row), up to the test of PENDING_FILE.exists() and the
\* choice of the attachment
VoiceCheck(c) ==
    /\ pc[c] = "loop"
    /\ idx[c] <= Len(rows[c])
    /\ is_from_target_sender(Row(c))
    /\ ~ voice_event_raises(Row(c).attachments, pendingFile)
    /\ pc' = [pc EXCEPT ![c] =
          IF voice_event_skipped(Row(c).attachments, pendingFile) THEN "code" ELSE "transcribe"]
    /\ evStart' = [evStart EXCEPT ![c] = Snapshot(NotRun, "not run")]
    /\ delivered' = [delivered EXCEPT ![c] = @ \cup {Row(c).id}]
    /\ UNCHANGED <<clockVars, authVars, storeVars, offsets, flowVars, rows, idx, runStart,
                   voiceLocal, sideVars>>

\* handle_voice_event(row), after the test: _transcribe, _generate_auth_code
\* and the open of write_text, which creates or truncates the pending file
VoiceRun(c) ==
    LET a == first_voice(Row(c).attachments)[1] IN
    /\ pc[c] = "transcribe"
    /\ nTranscribe' = nTranscribe + 1
    /\ \E out \in TranscribeOutputs(a.path) :
          \/ /\ transcribe(out) = <<>>
             /\ evStart' = [evStart EXCEPT ![c].out = out]
             /\ pc' = [pc EXCEPT ![c] = "code"]
             /\ UNCHANGED <<authVars, pendingFile, failureLog, voiceLocal>>
          \/ /\ transcribe(out) # <<>>
             /\ evStart' = [evStart EXCEPT ![c].out = out, ![c].generate = "failed"]
             /\ failureLog' = Append(failureLog,
                   LogEntry("code_generation_failed", <<>>, Row(c).source_message_id))
             /\ pc' = [pc EXCEPT ![c] = "code"]
             /\ UNCHANGED <<authVars, pendingFile, voiceLocal>>
          \/ /\ transcribe(out) # <<>>
             /\ evStart' = [evStart EXCEPT ![c].out = out, ![c].generate = "ok"]
             /\ \E n \in FlowCodeNumbers :
                   /\ DoGenerate(n)
                   /\ voiceLocal' = [voiceLocal EXCEPT ![c] =
                         [transcript |-> transcribe(out),
                          source_file |-> IF a.filename # <<>> THEN a.filename
                                          ELSE basename(a.path),
                          code |-> Format04d(n)]]
             /\ pendingFile' = EmptyPending
             /\ pc' = [pc EXCEPT ![c] = "store"]
             /\ UNCHANGED failureLog
    /\ UNCHANGED <<sent, executed>>
    /\ UNCHANGED <<clockVars, storeVars, offsets, rows, idx, runStart, delivered, sideVars>>

\* handle_voice_event(row): the write of write_text, and the two messages
VoiceStore(c) ==
    /\ pc[c] = "store"
    /\ pendingFile' = store_pending(voiceLocal[c].transcript, voiceLocal[c].source_file,
                                    Row(c).source_message_id, now)
    /\ sent' = sent \o << Msg("whatsapp", "auth_code", voiceLocal[c].code),
                          Msg("signal", "code_required", <<>>) >>
    /\ voiceLocal' = [voiceLocal EXCEPT ![c] = NoLocal]
    /\ pc' = [pc EXCEPT ![c] = "code"]
    /\ UNCHANGED <<failureLog, executed, nTranscribe>>
    /\ UNCHANGED <<clockVars, authVars, storeVars, offsets, rows, idx, runStart, evStart,
                   delivered, sideVars>>

\* handle_code_event(row): no pending transcript, or the text is not a code
CodeIgnored_before_voice(c) ==
    /\ evStart[c].pending = NoPending \/ CODE_RE_match(Row(c).text) = <<>>
    /\ UNCHANGED <<authVars, flowVars>>

CodeIgnored(c) ==
    /\ pendingFile = NoPending \/ CODE_RE_match(Row(c).text) = <<>>
    /\ UNCHANGED <<authVars, flowVars>>

\* handle_code_event(row): the auth tool exits non-zero
CodeToolFails(c) ==
    /\ pendingFile # NoPending
    /\ CODE_RE_match(Row(c).text) # <<>>
    /\ failureLog' = Append(failureLog,
          LogEntry("Internal validation error.", CODE_RE_match(Row(c).text)[1],
                   Row(c).source_message_id))
    /\ sent' = Append(sent, Msg("signal", "auth_failed", <<"Internal validation error.">>))
    /\ UNCHANGED <<authVars, pendingFile, executed, nTranscribe>>

\* handle_code_event(row): the code is validated; execution on success
CodeValidated(c) ==
    /\ pendingFile # NoPending
    /\ CODE_RE_match(Row(c).text) # <<>>
    /\ LET code == CODE_RE_match(Row(c).text)[1]
           v == validate_code(validate(authFile, code, now))
           transcript == pending_transcript(pendingFile)
       IN
       /\ DoValidate(code)
       /\ IF ~ v.ok
          THEN /\ failureLog' = Append(failureLog,
                      LogEntry(v.reason, code, Row(c).source_message_id))
               /\ sent' = Append(sent, Msg("signal", "auth_failed", <<v.reason>>))
               /\ UNCHANGED <<pendingFile, executed>>
          ELSE IF transcript = <<>>
          THEN /\ failureLog' = Append(failureLog,
                      LogEntry("pending_transcript_missing_or_invalid", code,
                               Row(c).source_message_id))
               /\ sent' = Append(sent, Msg("signal", "no_transcript", <<>>))
               /\ UNCHANGED <<pendingFile, executed>>
          ELSE \E res \in ExecResults :
               /\ executed' = Append(executed,
                      [id |-> Row(c).id, transcript |-> transcript, code |-> code,
                       result |-> res])
               /\ sent' = Append(sent, Msg("signal", "summary", <<res>>))
               /\ pendingFile' = NoPending
               /\ UNCHANGED failureLog
    /\ UNCHANGED nTranscribe

\* main(): handle_code_event(row)
HandleCodeEvent(c) ==
    /\ pc[c] = "code"
    /\ \/ CodeIgnored(c)
       \/ CodeToolFails(c)
       \/ CodeValidated(c)
    /\ pc' = [pc EXCEPT ![c] = "commit"]
    /\ UNCHANGED <<clockVars, storeVars, offsets, rows, idx, runStart, evStart,
                   delivered, voiceLocal, sideVars>>

\* main(): set_offset after both handlers
CommitOffset(c) ==
    /\ pc[c] = "commit"
    /\ offsets' = set_offset(offsets, c, Row(c).id)
    /\ idx' = [idx EXCEPT ![c] = idx[c] + 1]
    /\ pc' = [pc EXCEPT ![c] = "loop"]
    /\ evStart' = [evStart EXCEPT ![c] = NoSnapshot]
    /\ UNCHANGED <<clockVars, authVars, storeVars, flowVars, rows, runStart,
                   delivered, voiceLocal, sideVars>>

\* main(): the batch is exhausted; print the summary and return 0
FinishRun(c) ==
    /\ pc[c] = "loop"
    /\ idx[c] > Len(rows[c])
    /\ pc' = [pc EXCEPT ![c] = "done"]
    /\ UNCHANGED <<clockVars, authVars, storeVars, offsets, flowVars, rows, idx, runStart,
                   evStart, delivered, voiceLocal, sideVars>>

\* the consumer process is killed at any point of a run: what it held in
\* memory is gone, the files and the database stay
ConsumerCrash(c) ==
    /\ pc[c] \in {"loop", "code", "commit"}
    /\ nCrashes < MaxCrashes
    /\ pc' = [pc EXCEPT ![c] = "idle"]
    /\ rows' = [rows EXCEPT ![c] = <<>>]
    /\ idx' = [idx EXCEPT ![c] = 1]
    /\ evStart' = [evStart EXCEPT ![c] = NoSnapshot]
    /\ nCrashes' = nCrashes + 1
    /\ UNCHANGED <<clockVars, authVars, storeVars, offsets, flowVars, runStart,
                   delivered, voiceLocal, collVars, valVars, normVars, ingVars, loopVars>>

\* handle_code_event(row), up to the return of _validate_code: the event is
\* ignored, or refused with a log entry and a message, or the code is accepted
CodeValidate(c) ==
    /\ pc[c] = "code"
    /\ \/ /\ CodeIgnored(c)
          /\ pc' = [pc EXCEPT ![c] = "commit"]
       \/ /\ CodeToolFails(c)
          /\ pc' = [pc EXCEPT ![c] = "commit"]
       \/ /\ pendingFile # NoPending
          /\ CODE_RE_match(Row(c).text) # <<>>
          /\ LET code == CODE_RE_match(Row(c).text)[1]
                 v == validate_code(validate(authFile, code, now))
             IN
             /\ DoValidate(code)
             /\ IF v.ok
                THEN /\ pc' = [pc EXCEPT ![c] = "accepted"]
                     /\ UNCHANGED <<failureLog, sent>>
                ELSE /\ failureLog' = Append(failureLog,
                            LogEntry(v.reason, code, Row(c).source_message_id))
                     /\ sent' = Append(sent, Msg("signal", "auth_failed", <<v.reason>>))
                     /\ pc' = [pc EXCEPT ![c] = "commit"]
          /\ UNCHANGED <<pendingFile, executed, nTranscribe>>
    /\ UNCHANGED <<clockVars, storeVars, offsets, rows, idx, runStart, evStart,
                   delivered, voiceLocal, sideVars>>

\* handle_code_event(row), after the code was accepted: the pending file is
\* read and _execute_in_main is called with its transcript
CodeExecute(c) ==
    LET code == CODE_RE_match(Row(c).text)[1]
        transcript == pending_transcript(pendingFile)
    IN
    /\ pc[c] = "accepted"
    /\ IF transcript = <<>>
       THEN /\ failureLog' = Append(failureLog,
                   LogEntry("pending_transcript_missing_or_invalid", code,
                            Row(c).source_message_id))
            /\ sent' = Append(sent, Msg("signal", "no_transcript", <<>>))
            /\ pc' = [pc EXCEPT ![c] = "commit"]
            /\ UNCHANGED <<executed, voiceLocal>>
       ELSE \E res \in ExecResults :
            /\ executed' = Append(executed,
                   [id |-> Row(c).id, transcript |-> transcript, code |-> code,
                    result |-> res, issue |-> nGenerate])
            /\ voiceLocal' = [voiceLocal EXCEPT ![c] =
                   [transcript |-> transcript, source_file |-> <<>>, code |-> code,
                    summary |-> res]]
            /\ pc' = [pc EXCEPT ![c] = "executed"]
            /\ UNCHANGED <<failureLog, sent>>
    /\ UNCHANGED <<pendingFile, nTranscribe>>
    /\ UNCHANGED <<clockVars, authVars, storeVars, offsets, rows, idx, runStart, evStart,
                   delivered, sideVars>>

\* handle_code_event(row), after _execute_in_main returned: the summary is
\* sent and the pending file is unlinked
CodeFinish(c) ==
    /\ pc[c] = "executed"
    /\ sent' = Append(sent, Msg("signal", "summary", <<voiceLocal[c].summary>>))
    /\ pendingFile' = NoPending
    /\ voiceLocal' = [voiceLocal EXCEPT ![c] = NoLocal]
    /\ pc' = [pc EXCEPT ![c] = "commit"]
    /\ UNCHANGED <<failureLog, executed, nTranscribe>>
    /\ UNCHANGED <<clockVars, authVars, storeVars, offsets, rows, idx, runStart, evStart,
                   delivered, sideVars>>

\* the consumer process is killed inside handle_code_event, after the code
\* was accepted: before or during _execute_in_main, or before the unlink
HandlerCrash(c) ==
    /\ pc[c] \in {"accepted", "executed"}
    /\ nCrashes < MaxCrashes
    /\ pc' = [pc EXCEPT ![c] = "idle"]
    /\ rows' = [rows EXCEPT ![c] = <<>>]
    /\ idx' = [idx EXCEPT ![c] = 1]
    /\ evStart' = [evStart EXCEPT ![c] = NoSnapshot]
    /\ voiceLocal' = [voiceLocal EXCEPT ![c] = NoLocal]
    /\ nCrashes' = nCrashes + 1
    /\ UNCHANGED <<clockVars, authVars, storeVars, offsets, flowVars, runStart,
                   delivered, collVars, valVars, normVars, ingVars, loopVars>>

----------------------------------------------------------------------------
(* sigpro_loop.py: the loop run periodically, without the event log *)

\* a third voice note
Voice3 == [path |-> <<"/att/", "v3", ".mp3">>, filename |-> <<>>]

\* the files signal-cli stores under ATTACHMENT_DIR
AttachmentPool == {Voice1.path, Voice2.path, Voice3.path, Photo.path}

\* the events the dispatcher hands to consumer sigpro-auth-codes in one call
DEv(id, from, target, text) == [id |-> id, from |-> from, target |-> target, text |-> text]

DispatchBatches ==
    { <<>>,
      << DEv(<<"m1">>, TARGET_USER, <<>>, <<Blank>> \o Format04d(1234)) >>,
      << DEv(<<"m2">>, TARGET_USER, TARGET_USER, Format04d(451)),
         DEv(<<"m3">>, OtherUser, <<>>, Format04d(1234)),
         DEv(<<"m4">>, TARGET_USER, <<>>, <<"1", "2", "a", "4">>) >> }

NoLoopRun ==
    [n |-> 0, found |-> <<>>, out |-> NotRun, generate |-> "not run",
     pending |-> NoPending, code_msg |-> <<>>]

\* the files of ATTACHMENT_DIR with a voice suffix, in the order of the sort
RECURSIVE voice_files(_)
voice_files(dir) ==
    IF dir = <<>> THEN <<>>
    ELSE (IF lower(suffix(Head(dir))) \in VOICE_EXTENSIONS THEN <<Head(dir)>> ELSE <<>>)
            \o voice_files(Tail(dir))

\* _find_newest_unprocessed_attachment(): the file to process as <<path>>, or
\* <<>> for None, and the content of LAST_ATTACHMENT_FILE it leaves
find_newest_unprocessed_attachment(dir, last_name) ==
    LET files == voice_files(dir)
        at == {i \in 1..Len(files) : basename(files[i]) = last_name}
    IN
    IF files = <<>> THEN [file |-> <<>>, last |-> last_name]
    ELSE IF last_name = <<>>
    THEN [file |-> <<>>, last |-> basename(files[Len(files)])]
    ELSE IF at # {}
    THEN LET i == CHOOSE i \in at : \A j \in at : i <= j IN
         [file |-> IF i < Len(files) THEN <<files[i + 1]>> ELSE <<>>, last |-> last_name]
    ELSE [file |-> <<files[Len(files)]>>, last |-> last_name]

\* _store_pending_transcript(transcript, source_file) of the loop
loop_store_pending(transcript, source_file, t) ==
    [kind |-> "pending", transcript |-> transcript, source_file |-> source_file,
     created_at |-> IntTime(t), expires_in_sec |-> 300]

\* CODE_RE.match(text) of the loop, ^([0-9]{4})$: <<group(1)>> or <<>>
loop_CODE_RE_match(text) == IF IsFourDigits(text) THEN <<text>> ELSE <<>>

\* _read_latest_signal_code_message(): the last event of the batch that is a
\* code of the target user, as <<[message_id, code]>>, or <<>> for None
RECURSIVE read_latest_signal_code_message(_)
read_latest_signal_code_message(evs) ==
    IF evs = <<>> THEN <<>>
    ELSE LET ev == evs[Len(evs)]
             rest == SubSeq(evs, 1, Len(evs) - 1)
             target == strip(ev.target)
         IN
         IF /\ strip(ev.from) = TARGET_USER
            /\ (target = <<>> \/ target = TARGET_USER)
            /\ loop_CODE_RE_match(strip(ev.text)) # <<>>
            /\ strip(ev.id) # <<>>
         THEN << [message_id |-> strip(ev.id),
                  code |-> loop_CODE_RE_match(strip(ev.text))[1]] >>
         ELSE read_latest_signal_code_message(rest)

\* main(): whether _process_signal_auth_code() is called, given what
\* _process_new_voice_note() returned
code_entry_reached_always(handled) == TRUE

code_entry_reached(handled) == ~ handled

\* a file arrives in ATTACHMENT_DIR
AttachmentArrives(path) ==
    /\ \A i \in 1..Len(attachmentDir) : attachmentDir[i] # path
    /\ attachmentDir' = Append(attachmentDir, path)
    /\ UNCHANGED <<lastAttachment, loopPc, loopRun>>
    /\ UNCHANGED <<clockVars, authVars, storeVars, offsets, flowVars, procVars,
                   collVars, valVars, normVars, nCrashes, ingVars>>

\* main(): a run starts with _process_new_voice_note()
ProcessNewVoiceNote ==
    LET f == find_newest_unprocessed_attachment(attachmentDir, lastAttachment)
        run == [n |-> loopRun.n + 1, found |-> f.file, out |-> NotRun,
                generate |-> "not run", pending |-> pendingFile, code_msg |-> <<>>]
    IN
    /\ loopPc = "idle"
    /\ loopRun.n < MaxLoopRuns
    /\ IF f.file = <<>>
       THEN /\ lastAttachment' = f.last
            /\ loopRun' = run
            /\ loopPc' = IF code_entry_reached(FALSE) THEN "code" ELSE "idle"
            /\ UNCHANGED <<authVars, flowVars>>
       ELSE /\ lastAttachment' = basename(f.file[1])
            /\ nTranscribe' = nTranscribe + 1
            /\ loopPc' = IF code_entry_reached(TRUE) THEN "code" ELSE "idle"
            /\ \E out \in TranscribeOutputs(f.file[1]) :
                  \/ /\ transcribe(out) = <<>>
                     /\ loopRun' = [run EXCEPT !.out = out]
                     /\ UNCHANGED <<authVars, pendingFile, failureLog, sent>>
                  \/ /\ transcribe(out) # <<>>
                     /\ loopRun' = [run EXCEPT !.out = out, !.generate = "failed"]
                     /\ failureLog' = Append(failureLog,
                           LogEntry("code_generation_failed", <<>>, <<>>))
                     /\ UNCHANGED <<authVars, pendingFile, sent>>
                  \/ /\ transcribe(out) # <<>>
                     /\ loopRun' = [run EXCEPT !.out = out, !.generate = "ok"]
                     /\ \E n \in CodeNumbers :
                           /\ DoGenerate(n)
                           /\ sent' = sent \o
                                 << Msg("whatsapp", "auth_code", Format04d(n)),
                                    Msg("signal", "code_required", <<>>) >>
                     /\ pendingFile' = loop_store_pending(transcribe(out),
                                            basename(f.file[1]), now)
                     /\ UNCHANGED failureLog
            /\ UNCHANGED executed
    /\ UNCHANGED attachmentDir
    /\ UNCHANGED <<clockVars, storeVars, offsets, procVars,
                   collVars, valVars, normVars, nCrashes, ingVars>>

\* main(): _process_signal_auth_code(), and the end of the run
ProcessSignalAuthCode ==
    /\ loopPc = "code"
    /\ loopPc' = "idle"
    /\ \E evs \in DispatchBatches :
          LET code_msg == IF pendingFile = NoPending THEN <<>>
                          ELSE read_latest_signal_code_message(evs)
          IN
          /\ loopRun' = [loopRun EXCEPT !.code_msg = code_msg]
          /\ IF code_msg = <<>>
             THEN UNCHANGED <<authVars, flowVars>>
             ELSE LET code == code_msg[1].code
                      message_id == code_msg[1].message_id
                      v == validate_code(validate(authFile, code, now))
                      transcript == pending_transcript(pendingFile)
                  IN
                  \/ /\ failureLog' = Append(failureLog,
                           LogEntry("Internal validation error.", code, message_id))
                     /\ sent' = Append(sent,
                           Msg("signal", "auth_failed", <<"Internal validation error.">>))
                     /\ UNCHANGED <<authVars, pendingFile, executed, nTranscribe>>
                  \/ /\ DoValidate(code)
                     /\ IF ~ v.ok
                        THEN /\ failureLog' = Append(failureLog,
                                    LogEntry(v.reason, code, message_id))
                             /\ sent' = Append(sent, Msg("signal", "auth_failed", <<v.reason>>))
                             /\ UNCHANGED <<pendingFile, executed>>
                        ELSE IF transcript = <<>>
                        THEN /\ failureLog' = Append(failureLog,
                                    LogEntry("pending_transcript_missing_or_invalid", code,
                                             message_id))
                             /\ sent' = Append(sent, Msg("signal", "no_transcript", <<>>))
                             /\ UNCHANGED <<pendingFile, executed>>
                        ELSE \E res \in ExecResults :
                             /\ executed' = Append(executed,
                                    [id |-> message_id, transcript |-> transcript,
                                     code |-> code, result |-> res])
                             /\ sent' = Append(sent, Msg("signal", "summary", <<res>>))
                             /\ pendingFile' = NoPending
                             /\ UNCHANGED failureLog
                     /\ UNCHANGED nTranscribe
    /\ UNCHANGED <<attachmentDir, lastAttachment>>
    /\ UNCHANGED <<clockVars, storeVars, offsets, procVars,
                   collVars, valVars, normVars, nCrashes, ingVars>>

----------------------------------------------------------------------------
(* The collector's append and a reader's query, as steps *)

NoPublish == [n |-> 0, event_id |-> "", inserted |-> FALSE]
NoFetch == [n |-> 0, after |-> 0, limit |-> 0, result |-> <<>>]

\* the collector publishes one normalized event
PublishEvent(event) ==
    LET r == publish_event(events, lastRowid, event) IN
    /\ lastPublish.n < MaxPublish
    /\ events' = r.table
    /\ lastRowid' = r.rowid
    /\ inserted' = IF r.inserted THEN Append(inserted, event.event_id) ELSE inserted
    /\ published' = published \cup {event.event_id}
    /\ lastPublish' = [n |-> lastPublish.n + 1, event_id |-> event.event_id,
                       inserted |-> r.inserted]
    /\ UNCHANGED <<clockVars, authVars, offsets, lastFetch, flowVars, procVars, sideVars>>

\* a reader calls fetch_events; lastFetch.n alternates to mark the call
FetchEvents(after, limit) ==
    /\ lastFetch' = [n |-> 1 - lastFetch.n, after |-> after, limit |-> limit,
                     result |-> fetch_events(events, after, limit)]
    /\ UNCHANGED <<clockVars, authVars, events, lastRowid, offsets, inserted, published,
                   lastPublish, flowVars, procVars, sideVars>>

----------------------------------------------------------------------------
(* The clock *)

Now0 == 1000 * Hz

Tick(d) ==
    /\ nTicks < MaxTicks
    /\ now' = now + d
    /\ nTicks' = nTicks + 1
    /\ UNCHANGED <<authVars, storeVars, offsets, flowVars, procVars, sideVars>>

\* one tick, 200 s, and one tick less than the lifetime of a code
AuthTickSteps == {1, 200 * Hz, EXPIRY_SEC * Hz - 1}

\* time passes until the stored code is one tick past its expiry
CodeExpires ==
    /\ authFile.kind = "code"
    /\ now <= authFile.expires_at * Hz
    /\ now' = authFile.expires_at * Hz + 1
    /\ UNCHANGED <<nTicks, authVars, storeVars, offsets, flowVars, procVars, sideVars>>

----------------------------------------------------------------------------
(* Initial states *)

NoValidate == [submitted |-> <<>>, ok |-> FALSE, message |-> ""]
NoGenerate == [code |-> <<>>, expires_at |-> 0, replaced |-> NoFile]

InitClock == now = Now0 /\ nTicks = 0

InitAuthTool ==
    /\ authFile = NoFile
    /\ nValidate = 0
    /\ lastValidate = NoValidate
    /\ nGenerate = 0
    /\ lastGenerate = NoGenerate
    /\ consumed = FALSE

InitStore ==
    /\ events = {}
    /\ lastRowid = 0
    /\ offsets = << >>
    /\ inserted = <<>>
    /\ published = {}
    /\ lastPublish = NoPublish
    /\ lastFetch = NoFetch

InitFlow ==
    /\ pendingFile = NoPending
    /\ failureLog = <<>>
    /\ sent = <<>>
    /\ executed = <<>>
    /\ nTranscribe = 0

InitProcOf(S) ==
    /\ pc = [c \in S |-> "idle"]
    /\ rows = [c \in S |-> <<>>]
    /\ idx = [c \in S |-> 1]
    /\ runStart = [c \in S |-> 0]
    /\ evStart = [c \in S |-> NoSnapshot]
    /\ delivered = [c \in S |-> {}]
    /\ voiceLocal = [c \in S |-> NoLocal]

InitProc == InitProcOf(Consumers)

InitColl ==
    /\ rawFile = <<>>
    /\ offsetFile = 0 - 1
    /\ lockHolder = {}
    /\ kpc = [k \in Collectors |-> "idle"]
    /\ kmode = [k \in Collectors |-> "once"]
    /\ batch = [k \in Collectors |-> <<>>]
    /\ exitStatus = [k \in Collectors |-> 0 - 1]
    /\ krun = [k \in Collectors |-> NoRun]

InitVal ==
    /\ vpc = [p \in Validators |-> "idle"]
    /\ vstate = [p \in Validators |-> EmptyState]
    /\ vsubmitted = [p \in Validators |-> <<>>]
    /\ nAccepted = 0

InitNorm == normalized = <<>>

InitIng ==
    /\ ing = [p \in Ingesters |-> NoIngest]
    /\ writeLock = {}

\* ATTACHMENT_DIR is empty and sigpro_loop has not run
InitLoop ==
    /\ attachmentDir = <<>>
    /\ lastAttachment = <<>>
    /\ loopPc = "idle"
    /\ loopRun = NoLoopRun

InitSide == InitColl /\ InitVal /\ InitNorm /\ nCrashes = 0 /\ InitIng /\ InitLoop

\* two consumer processes are installed
InitRace ==
    InitClock /\ InitAuthTool /\ InitStore /\ InitFlow /\ InitProcOf(RaceConsumers) /\ InitSide

\* the auth tool is also started between two full seconds
InitAuth ==
    /\ now \in {Now0, Now0 + 1} /\ nTicks = 0
    /\ InitAuthTool /\ InitStore /\ InitFlow /\ InitProc /\ InitSide

Init == InitClock /\ InitAuthTool /\ InitStore /\ InitFlow /\ InitProc /\ InitSide

----------------------------------------------------------------------------
(* The auth tool alone: generate and validate from the command line *)

CliGenerate ==
    /\ nGenerate + nValidate < MaxAuthCalls
    /\ \E n \in CodeNumbers : DoGenerate(n)
    /\ UNCHANGED <<clockVars, storeVars, offsets, flowVars, procVars, sideVars>>

CliValidate ==
    /\ nGenerate + nValidate < MaxAuthCalls
    /\ \E s \in Submissions : DoValidate(s)
    /\ UNCHANGED <<clockVars, storeVars, offsets, flowVars, procVars, sideVars>>

AuthTick == \E d \in AuthTickSteps : Tick(d)

NextAuth == CliGenerate \/ CliValidate \/ AuthTick

SpecAuth == InitAuth /\ [][NextAuth]_vars

----------------------------------------------------------------------------
(* The auth tool run by several processes at once *)

RaceGenerate ==
    /\ nGenerate + nValidate < MaxAuthCalls
    /\ \E n \in CodeNumbers : DoGenerate(n)
    /\ nAccepted' = 0
    /\ UNCHANGED <<vpc, vstate, vsubmitted>>
    /\ UNCHANGED <<clockVars, storeVars, offsets, flowVars, procVars, collVars, normVars, nCrashes, ingVars, loopVars>>

RaceValidateLoad ==
    /\ nGenerate + nValidate < MaxAuthCalls
    /\ \E p \in Validators, s \in Submissions : ValidateLoad(p, s)
    /\ UNCHANGED <<clockVars, storeVars, offsets, flowVars, procVars, collVars, normVars, nCrashes, ingVars, loopVars>>

RaceValidateDecide ==
    /\ \E p \in Validators : ValidateDecide(p)
    /\ UNCHANGED <<clockVars, storeVars, offsets, flowVars, procVars, collVars, normVars, nCrashes, ingVars, loopVars>>

NextValidateRace == RaceGenerate \/ RaceValidateLoad \/ RaceValidateDecide \/ CodeExpires

SpecValidateRace == InitAuth /\ [][NextValidateRace]_vars

----------------------------------------------------------------------------
(* The event store alone: appends and queries *)

\* the events of the target sender; an event may be published again
StorePool == {e \in EventPool : e.sender_id = TARGET_USER}

StorePublish == \E e \in StorePool : PublishEvent(e)

\* after_rowid up to the largest id, limit from "no limit" to more than the rows
StoreFetch ==
    \E after \in 0..MaxPublish, limit \in (0 - 1)..(MaxPublish + 1) : FetchEvents(after, limit)

NextStore == StorePublish \/ StoreFetch

SpecStore == Init /\ [][NextStore]_vars

----------------------------------------------------------------------------
(* The collector processes over the raw file *)

AppendRaw == \E line \in LinePool : AppendRawLine(line)

NextCollector ==
    \/ AppendRaw
    \/ \E k \in Collectors :
          \/ \E mode \in {"once", "follow"} : CollectorStart(k, mode)
          \/ \E input \in StdinInputs : CollectorStartStdin(k, input)
          \/ IngestFileOnce(k)
          \/ PublishNext(k)
          \/ EndBatch(k)
          \/ CollectorCrash(k)

SpecCollector == Init /\ [][NextCollector]_vars

----------------------------------------------------------------------------
(* One collector process over a raw file that is rotated *)

Rotate == \E file \in {<<>>, EmptyFile} : RotateRaw(file)

NextRotate ==
    \/ AppendRaw
    \/ Rotate
    \/ \E mode \in {"once", "follow"} : CollectorStart("collector-1", mode)
    \/ IngestFileOnce("collector-1")
    \/ PublishNext("collector-1")
    \/ EndBatch("collector-1")

SpecRotate == Init /\ [][NextRotate]_vars

----------------------------------------------------------------------------
(* Two runs of the ingest tool *)

NextIngest ==
    \E p \in Ingesters :
        \/ \E objs \in IngestInputs : IngestStart(p, objs)
        \/ IngestLock(p)
        \/ IngestWrite(p)
        \/ IngestExit(p)

\* a process that can take a step takes one: flock returns once the lock is
\* free, and the writes and the exit do not wait for anything
IngestFairness ==
    \A p \in Ingesters :
        /\ WF_vars(IngestLock(p))
        /\ WF_vars(IngestWrite(p))
        /\ WF_vars(IngestExit(p))

SpecIngest == Init /\ [][NextIngest]_vars /\ IngestFairness

----------------------------------------------------------------------------
(* The normalizer alone *)

NormTick == Tick(Hz)

NextNormalize == (\E raw \in RawPool : Normalize(raw)) \/ NormTick

SpecNormalize == Init /\ [][NextNormalize]_vars

----------------------------------------------------------------------------
(* Collector and one sequential consumer *)

\* --limit values of a run: one event per run, and the default
RunLimits == {1, 100}

\* the collector publishes an event it has not published before
Publish == \E e \in EventPool : e.event_id \notin published /\ PublishEvent(e)

Next ==
    \/ Publish
    \/ CodeExpires
    \/ \E c \in Consumers :
          \/ \E limit \in RunLimits : StartRun(c, limit)
          \/ SkipEvent(c)
          \/ HandleVoiceEvent(c)
          \/ HandleCodeEvent(c)
          \/ CommitOffset(c)
          \/ FinishRun(c)

Spec == Init /\ [][Next]_vars

----------------------------------------------------------------------------
(* Collector, and a consumer that can be killed at any point of a run *)

\* a voice note, its code, and a message of another sender; the collector
\* may publish an event again
LogPool == {e \in EventPool : e.event_id \in {"v1", "c2", "u1"}}

LogPublish == \E e \in LogPool : PublishEvent(e)

NextCrash ==
    \/ LogPublish
    \/ \E c \in Consumers :
          \/ \E limit \in RunLimits : StartRun(c, limit)
          \/ SkipEvent(c)
          \/ HandleVoiceEvent(c)
          \/ HandleCodeEvent(c)
          \/ CommitOffset(c)
          \/ FinishRun(c)
          \/ ConsumerCrash(c)

SpecCrash == Init /\ [][NextCrash]_vars

----------------------------------------------------------------------------
(* Collector and one consumer; an event can carry a malformed attachment *)

\* a message whose attachments list holds a string, a voice note, its code,
\* and a message of another sender
PoisonPool ==
    {Ev("p1", TARGET_USER, <<>>, <<StringAtt>>)}
        \cup {e \in EventPool : e.event_id \in {"v1", "c2", "u1"}}

PoisonPublish == \E e \in PoisonPool : e.event_id \notin published /\ PublishEvent(e)

NextPoison ==
    \/ PoisonPublish
    \/ \E c \in Consumers :
          \/ \E limit \in RunLimits : StartRun(c, limit)
          \/ SkipEvent(c)
          \/ HandleVoiceEvent(c)
          \/ VoiceRaises(c)
          \/ HandleCodeEvent(c)
          \/ CommitOffset(c)
          \/ FinishRun(c)

SpecPoison == Init /\ [][NextPoison]_vars

----------------------------------------------------------------------------
(* Collector, and a consumer that can be killed at any point of a run and *)
(* inside the code handler *)

\* a voice note, its code, and a voice note sent with the code as its text
ReplayPool == {e \in EventPool : e.event_id \in {"v1", "c2", "v2"}}

ReplayPublish == \E e \in ReplayPool : e.event_id \notin published /\ PublishEvent(e)

NextReplay ==
    \/ ReplayPublish
    \/ \E c \in Consumers :
          \/ \E limit \in RunLimits : StartRun(c, limit)
          \/ HandleVoiceEvent(c)
          \/ CodeValidate(c)
          \/ CodeExecute(c)
          \/ CodeFinish(c)
          \/ CommitOffset(c)
          \/ FinishRun(c)
          \/ ConsumerCrash(c)
          \/ HandlerCrash(c)

SpecReplay == Init /\ [][NextReplay]_vars

----------------------------------------------------------------------------
(* The legacy loop: files arrive, and the loop is run again and again *)

Arrival == \E path \in AttachmentPool : AttachmentArrives(path)

NextLoop ==
    \/ Arrival
    \/ ProcessNewVoiceNote
    \/ ProcessSignalAuthCode

SpecLoop == Init /\ [][NextLoop]_vars

----------------------------------------------------------------------------
(* Collector and two consumer processes, the voice handler step by step *)

\* a voice note sent with the code as its text, and a message of another
\* sender
RacePool == {e \in EventPool : e.event_id \in {"v2", "u1"}}

RacePublish == \E e \in RacePool : e.event_id \notin published /\ PublishEvent(e)

NextRace ==
    \/ RacePublish
    \/ \E c \in RaceConsumers :
          \/ \E limit \in RunLimits : StartRun(c, limit)
          \/ SkipEvent(c)
          \/ VoiceCheck(c)
          \/ VoiceRun(c)
          \/ VoiceStore(c)
          \/ HandleCodeEvent(c)
          \/ CommitOffset(c)
          \/ FinishRun(c)

SpecRace == InitRace /\ [][NextRace]_vars

----------------------------------------------------------------------------
(* Properties of the auth tool (SpecAuth) *)

ValidateStep == nValidate' = nValidate + 1

\* a code is stored by the latest generate and has not been accepted since
CodeOutstanding == nGenerate > 0 /\ ~ consumed

\* C3: after a validate has succeeded, every further validate, whatever the
\* submitted string, fails with "No active code." until the next generate;
\* so no code is accepted twice.
C3_OneTimeUse ==
    [][ (consumed /\ ValidateStep) =>
          (~ lastValidate'.ok /\ lastValidate'.message = "No active code.") ]_vars

\* the accepted code was submitted again and refused
C3_Witness ==
    /\ consumed
    /\ nValidate >= 2
    /\ strip(lastValidate.submitted) = lastGenerate.code
    /\ lastValidate.message = "No active code."

\* C4: a validate made after expires_at of the stored code fails with
\* "Code expired.", whether or not the submitted string is the stored code.
C4_Expiry ==
    [][ (CodeOutstanding /\ ValidateStep /\ now > lastGenerate.expires_at * Hz) =>
          (~ lastValidate'.ok /\ lastValidate'.message = "Code expired.") ]_vars

\* the stored code itself was submitted after its expiry and refused
C4_Witness ==
    /\ CodeOutstanding
    /\ now > lastGenerate.expires_at * Hz
    /\ lastValidate.submitted = lastGenerate.code
    /\ lastValidate.message = "Code expired."

\* C5: while the code of the latest generate is outstanding, validate of that
\* code at any time now <= expires_at returns (true, "Code valid.") and
\* leaves no code stored.
C5_AcceptedInWindow ==
    [][ ( /\ CodeOutstanding
          /\ ValidateStep
          /\ lastValidate'.submitted = lastGenerate.code
          /\ now <= lastGenerate.expires_at * Hz ) =>
          ( /\ lastValidate'.ok
            /\ lastValidate'.message = "Code valid."
            /\ authFile' = EmptyState ) ]_vars

\* issued at t = 1000, accepted at t = 1200
C5_Witness ==
    /\ lastGenerate.expires_at = 1000 + EXPIRY_SEC
    /\ now = 1200 * Hz
    /\ lastValidate.ok
    /\ lastValidate.submitted = lastGenerate.code
    /\ authFile = EmptyState

GenerateStep == nGenerate' = nGenerate + 1

\* C17: generate replaces whatever is stored (nothing, a live code, an
\* expired code) by the new code with expires_at = int(now) + 300; from then
\* on only the code of the latest generate validates, so a code issued
\* earlier is refused unless it equals the new one, and at most one code is
\* live at any instant.
C17_IssueOverwrites ==
    [][ /\ GenerateStep =>
              /\ authFile' = CodeState(lastGenerate'.code, IntTime(now) + EXPIRY_SEC)
              /\ IsFourDigits(lastGenerate'.code)
        /\ (ValidateStep /\ lastValidate'.ok) =>
              /\ strip(lastValidate'.submitted) = lastGenerate.code
              /\ authFile = CodeState(lastGenerate.code, lastGenerate.expires_at) ]_vars

\* the code 0451 was replaced while live by 1234, and then refused within
\* its own lifetime
C17_Witness ==
    /\ nGenerate >= 2
    /\ lastGenerate.replaced.kind = "code"
    /\ lastGenerate.replaced.code = Format04d(451)
    /\ lastGenerate.code = Format04d(1234)
    /\ now <= lastGenerate.replaced.expires_at * Hz
    /\ lastValidate.submitted = Format04d(451)
    /\ lastValidate.message = "Code mismatch."

----------------------------------------------------------------------------
(* Properties of the event store (SpecStore) *)

PublishStep == lastPublish'.n = lastPublish.n + 1
FetchStep == lastFetch'.n # lastFetch.n

Min(a, b) == IF a <= b THEN a ELSE b

\* position of an event_id in the insertion order (0 when never inserted)
InsertPos(eid) ==
    IF \E i \in 1..Len(inserted) : inserted[i] = eid
    THEN CHOOSE i \in 1..Len(inserted) : inserted[i] = eid
    ELSE 0

\* C6: the log holds exactly one row for each event_id ever published; the
\* first publish of an event_id returns inserted, every later publish of it
\* returns duplicate and leaves the log unchanged.
C6_IdempotentAppend ==
    [][ PublishStep =>
          ( /\ lastPublish'.inserted <=> (lastPublish'.event_id \notin published)
            /\ ~ lastPublish'.inserted => (events' = events /\ lastRowid' = lastRowid)
            /\ \A e \in published' :
                  Cardinality({r \in events' : r.event_id = e}) = 1
            /\ Cardinality(events') = Cardinality(published') ) ]_vars

\* an event_id was published a second time and the log holds it once
C6_Witness ==
    /\ lastPublish.n >= 2
    /\ ~ lastPublish.inserted
    /\ Cardinality({r \in events : r.event_id = lastPublish.event_id}) = 1

\* C7: for limit >= 0, fetch_events(after, limit) returns the first `limit`
\* rows with id > after (all of them when there are fewer), in strictly
\* increasing id, which is the order of insertion.
C7_FetchOrdering ==
    [][ (FetchStep /\ lastFetch'.limit >= 0) =>
          LET res == lastFetch'.result
              cand == {r \in events : r.id > lastFetch'.after}
          IN /\ Len(res) = Min(lastFetch'.limit, Cardinality(cand))
             /\ \A i \in 1..Len(res) : res[i] \in cand
             /\ \A i, j \in 1..Len(res) : i < j =>
                   /\ res[i].id < res[j].id
                   /\ InsertPos(res[i].event_id) < InsertPos(res[j].event_id)
             /\ \A r \in cand : (\A i \in 1..Len(res) : res[i] # r) =>
                   (\A i \in 1..Len(res) : res[i].id < r.id) ]_vars

\* a fetch after the first row, cut by the limit before the last row
C7_Witness ==
    /\ Cardinality(events) = 3
    /\ lastFetch.n = 1
    /\ lastFetch.after = 1
    /\ lastFetch.limit = 1
    /\ Len(lastFetch.result) = 1
    /\ lastFetch.result[1].id = 2

----------------------------------------------------------------------------
(* Properties of the consumer (Spec) *)

\* the consumer c takes a step of main()
ConsumerStep(c) == pc'[c] # pc[c] \/ idx'[c] # idx[c]

\* c decides what to do with the current event
AtEvent(c) == pc[c] = "loop" /\ idx[c] <= Len(rows[c])

\* some attachment of the event is named like a voice file
VoiceBearing(row) ==
    \E i \in 1..Len(row.attachments) : has_voice_suffix(row.attachments[i])

Last(seq) == seq[Len(seq)]

\* an invocation of _execute_in_main by c, in the code handler, right after
\* validate accepted the four digits of the event's text, with the transcript
\* of the pending file
GatedExecution(c) ==
    /\ pc[c] = "code"
    /\ pc'[c] = "commit"
    /\ pendingFile # NoPending
    /\ ValidateStep
    /\ lastValidate'.ok
    /\ lastValidate'.submitted = strip(Row(c).text)
    /\ Len(executed') = Len(executed) + 1
    /\ SubSeq(executed', 1, Len(executed)) = executed
    /\ Last(executed').id = Row(c).id
    /\ Last(executed').transcript = pendingFile.transcript

VoiceHandlerStep(c) == pc[c] = "loop" /\ pc'[c] = "code"

\* handling of the current event by both handlers of c has ended
Handled(c) == pc[c] = "commit"

\* nothing was transcribed or issued and the files are as they were when
\* handling of the event began
AsAtEventStart(c) ==
    /\ nTranscribe = evStart[c].nTranscribe
    /\ nGenerate = evStart[c].nGenerate
    /\ pendingFile = evStart[c].pending
    /\ authFile = evStart[c].auth

\* C2 as stated: a voice-bearing event from the authorized sender handled
\* while a PendingRequest exists is dropped; when its handling ends nothing
\* was transcribed, no code was issued, and PendingRequest and AuthCode are
\* as they were.
C2_AsStated ==
    \A c \in Consumers :
       ( /\ Handled(c)
         /\ Row(c).sender_id = TARGET_USER
         /\ VoiceBearing(Row(c))
         /\ evStart[c].pending # NoPending ) => AsAtEventStart(c)

\* the code handler of c accepted the current event's text as the code and
\* executed the pending transcript
ExecutedFor(c) == executed # <<>> /\ Last(executed).id = Row(c).id

\* C2 amended: the voice handler drops such an event: it transcribes
\* nothing, issues no code and leaves PendingRequest and AuthCode as they
\* were; they are still so when handling of the event ends, unless the
\* event's text is also a 4-digit code that validate accepts, on which the
\* code handler executes the pending transcript.
C2_SinglePending ==
    [][ \A c \in Consumers :
          /\ ( /\ VoiceHandlerStep(c)
               /\ VoiceBearing(Row(c))
               /\ pendingFile # NoPending ) =>
                  UNCHANGED <<nTranscribe, nGenerate, pendingFile, authFile>>
          /\ ( /\ Handled(c)'
               /\ VoiceBearing(Row(c)')
               /\ evStart'[c].pending # NoPending
               /\ ~ ExecutedFor(c)' ) => AsAtEventStart(c)' ]_vars

\* the voice handler has just dropped a voice event because a transcript is pending
C2_Witness ==
    \E c \in Consumers :
       /\ pc[c] = "code"
       /\ VoiceBearing(Row(c))
       /\ first_voice(Row(c).attachments) # <<>>
       /\ evStart[c].pending # NoPending
       /\ pendingFile = evStart[c].pending

\* C8: when a run has completed, the consumer's offset is >= its value at the
\* start of the run; it is the id of the last fetched event when the run
\* fetched any, and unchanged when the run fetched none.
C8_OffsetMonotonic ==
    \A c \in Consumers :
       pc[c] = "done" =>
          /\ get_offset(offsets, c) >= runStart[c]
          /\ rows[c] # <<>> => get_offset(offsets, c) = Last(rows[c]).id
          /\ rows[c] = <<>> => get_offset(offsets, c) = runStart[c]

\* a completed run that started from a stored offset and fetched two events,
\* the last one skipped as unauthorized
C8_Witness ==
    \E c \in Consumers :
       /\ pc[c] = "done"
       /\ runStart[c] >= 1
       /\ Len(rows[c]) = 2
       /\ strip(Last(rows[c]).sender_id) # TARGET_USER
       /\ get_offset(offsets, c) = Last(rows[c]).id

\* the step c takes at the current event skips it: neither handler runs,
\* nothing of the workflow changes, and the offset moves to the event
SkipsEvent(c) ==
    /\ pc'[c] = "loop"
    /\ idx'[c] = idx[c] + 1
    /\ get_offset(offsets', c) = Row(c).id
    /\ UNCHANGED <<authVars, flowVars>>

CodeHandlerStep(c) == pc[c] = "code" /\ pc'[c] = "commit"

\* the code handler leaves the event alone, and the offset then moves to it
TextIgnored(c) ==
    /\ CodeHandlerStep(c) => UNCHANGED <<authVars, pendingFile, failureLog, sent, executed>>
    /\ (Handled(c) /\ ConsumerStep(c)) => get_offset(offsets', c) = Row(c).id

C16_RetryAfterFailedCode ==
    [][ \A c \in Consumers :
          /\ (CodeHandlerStep(c) /\ ValidateStep /\ lastValidate'.message = "Code mismatch.") =>
                /\ UNCHANGED <<pendingFile, authFile, executed>>
                /\ failureLog' = Append(failureLog,
                      LogEntry("Code mismatch.", strip(Row(c).text), Row(c).source_message_id))
                /\ sent' = Append(sent, Msg("signal", "auth_failed", <<"Code mismatch.">>))
          /\ (pendingFile # NoPending /\ pendingFile' # pendingFile) =>
                /\ pendingFile' = NoPending
                /\ Len(executed') = Len(executed) + 1
          /\ ( /\ CodeHandlerStep(c) /\ ValidateStep
               /\ authFile.kind = "code"
               /\ strip(Row(c).text) = authFile.code
               /\ now <= authFile.expires_at * Hz ) =>
                /\ lastValidate'.ok
                /\ Len(executed') = Len(executed) + 1
                /\ Last(executed').transcript = pendingFile.transcript ]_vars

\* a wrong code was refused and logged, and the one code issued was then
\* accepted for the transcript that was pending all along
C16_Witness ==
    /\ nGenerate = 1
    /\ Len(failureLog) = 1
    /\ failureLog[1].reason = "Code mismatch."
    /\ lastValidate.ok
    /\ Len(executed) = 1
    /\ executed[1].code = lastGenerate.code
    /\ executed[1].transcript = Speech(Voice1.path)

----------------------------------------------------------------------------
(* Properties of the auth tool run by several processes (SpecValidateRace) *)

\* C13 as stated: of the validate invocations made against one stored code,
\* concurrent ones included, at most one returns success.
C13_AsStated == nAccepted <= 1

----------------------------------------------------------------------------
(* Properties of the collector processes (SpecCollector) *)

\* the collector processes past acquire_lock_or_exit
PastLock == {k \in Collectors : kpc[k] \in {"ingest", "publish"}}

\* the process k is started in this step
Started(k) ==
    /\ kpc[k] \in Stopped
    /\ <<kpc[k], kmode[k], exitStatus[k]>>' # <<kpc[k], kmode[k], exitStatus[k]>>

\* C11: at any time at most one collector process is past
\* acquire_lock_or_exit, in every mode; a collector started while another
\* holds the lock ends in the same step with status 1, and only a process
\* past the lock appends to the Event Log or writes the offset file.
C11_MutualExclusion ==
    [][ /\ Cardinality(PastLock') <= 1
        /\ \A k \in Collectors :
              (Started(k) /\ lockHolder \ {k} # {}) =>
                 /\ kpc'[k] = "exited"
                 /\ exitStatus'[k] = 1
                 /\ UNCHANGED <<events, lastRowid, offsetFile>>
        /\ (events' # events \/ offsetFile' # offsetFile) =>
              \E k \in PastLock : lockHolder = {k} ]_vars

\* a collector started with --stdin-jsonl was turned away while another one
\* was publishing its batch
C11_Witness ==
    \E k, h \in Collectors :
       /\ k # h
       /\ kpc[h] = "publish" /\ batch[h] # <<>> /\ lockHolder = {h}
       /\ kpc[k] = "exited" /\ kmode[k] = "stdin" /\ exitStatus[k] = 1

\* the event of the raw object is in the Event Log
InLog(raw) == \E r \in events : r.event_id = stable_event_id(raw, now)

\* C12 as stated: the offset file is written only after the records read up
\* to that offset are in the Event Log, so no crash loses a record: when a
\* collector run over the raw file has completed and none is running, also
\* after crashes and restarts, every well-formed record of the raw file that
\* lies before the persisted offset is in the Event Log.
C12_AsStated ==
    \A k \in Collectors :
       (kpc[k] = "done" /\ kmode[k] = "once" /\ lockHolder = {}) =>
          \A i \in 1..Len(rawFile) :
             (rawFile[i].kind = "json" /\ SizeOf(rawFile, i) <= read_offset(offsetFile)) =>
                InLog(rawFile[i].obj)

----------------------------------------------------------------------------
(* Properties of the normalizer (SpecNormalize) *)

\* C19 as stated: two raw objects with the same (source_message_id,
\* timestamp, sender_id, text) get the same event_id at whatever time each is
\* normalized, and when all four are empty the event_id is the digest of the
\* entire raw object.
C19_AsStated ==
    \A i, j \in 1..Len(normalized) :
       /\ RawKey(normalized[i].raw) = RawKey(normalized[j].raw) =>
             normalized[i].event.event_id = normalized[j].event.event_id
       /\ RawKey(normalized[i].raw) = EmptyKey =>
             normalized[i].event.event_id = sha256(JsonDump(normalized[i].raw))

----------------------------------------------------------------------------
(* Properties of two consumer processes (SpecRace) *)

\* C14 as stated: with two consumer processes handling voice events in any
\* interleaving, a code is issued and the PendingRequest written only when
\* none exists, and an existing PendingRequest is never overwritten.
C14_AsStated ==
    [][ /\ nGenerate' # nGenerate => pendingFile = NoPending
        /\ (pendingFile.kind = "pending" /\ pendingFile' # pendingFile) =>
              pendingFile' = NoPending ]_vars

\* C15 as stated: whenever validate succeeds for a code event while a
\* PendingRequest exists, the PendingRequest no longer exists when the code
\* handler returns, whatever the content of the pending file.
C15_AsStated ==
    [][ \A c \in RaceConsumers :
          ( /\ pc[c] = "code" /\ pc'[c] = "commit"
            /\ pendingFile # NoPending
            /\ nValidate' = nValidate + 1
            /\ lastValidate'.ok ) => pendingFile' = NoPending ]_vars

----------------------------------------------------------------------------
(* Properties of the log and of delivery under crashes (SpecCrash) *)

\* the row of an inserted event_id
RowOf(table, eid) == CHOOSE r \in table : r.event_id = eid

\* C18: seq values are strictly increasing in insertion order, and no
\* operation of collector, consumer or store changes or removes a row: the
\* set of stored events only grows, and a new row gets a seq above every
\* seq given before.
C18_LogImmutable ==
    [][ /\ events \subseteq events'
        /\ \A r \in events' \ events : r.id > lastRowid /\ \A q \in events : r.id > q.id
        /\ \A i, j \in 1..Len(inserted') :
              i < j => RowOf(events', inserted'[i]).id < RowOf(events', inserted'[j]).id
        /\ Cardinality(events') = Len(inserted') ]_vars

\* an event was published a second time after the consumer had stored an
\* offset, and both rows of the log are as inserted
C18_Witness ==
    /\ lastPublish.n >= 3
    /\ ~ lastPublish.inserted
    /\ Cardinality(events) = 2
    /\ \E c \in Consumers : get_offset(offsets, c) >= 1
    /\ \A i \in 1..Len(inserted) : RowOf(events, inserted[i]).id = i

\* the events handled or skipped by c whose id the stored offset has not reached
Uncommitted(c) ==
    {r \in events : r.id \in delivered[c] /\ r.id > get_offset(offsets, c)}

\* C20: in every reachable state, crashes and restarts included, every event
\* with seq <= the stored offset has been passed to the handlers or skipped
\* at least once; the events of a run are in ascending seq and none between
\* the offset and the current event is left out; and an event handled but
\* not yet followed by set_offset is fetched again by the next run.
C20_AtLeastOnceInOrder ==
    [][ \A c \in Consumers :
          /\ \A r \in events' : r.id <= get_offset(offsets', c) => r.id \in delivered'[c]
          /\ \A i, j \in 1..Len(rows'[c]) : i < j => rows'[c][i].id < rows'[c][j].id
          /\ offsets' # offsets =>
                /\ get_offset(offsets', c) = Row(c).id
                /\ ~ \E r \in events : get_offset(offsets, c) < r.id /\ r.id < Row(c).id
          /\ (pc[c] \in {"idle", "done"} /\ pc'[c] = "loop") =>
                \A r \in Uncommitted(c) : rows'[c] # <<>> /\ rows'[c][1] = r ]_vars

\* the consumer was killed after handling an event and before set_offset;
\* the next run starts with that event
C20_Witness ==
    \E c \in Consumers :
       /\ pc[c] = "loop"
       /\ idx[c] = 1
       /\ rows[c] # <<>>
       /\ rows[c][1].id \in delivered[c]
       /\ get_offset(offsets, c) >= 1
       /\ get_offset(offsets, c) < rows[c][1].id

----------------------------------------------------------------------------
(* Failures inside the handlers (SpecPoison, Spec) *)

\* C21, as stated: a run of the consumer that has ended, normally or because
\* a handler failed, has handled every event of its batch: the offset stands
\* at the last event it fetched.
C21_AsStated ==
    \A c \in Consumers :
        (pc[c] \in {"done", "failed"} /\ rows[c] # <<>>)
            => get_offset(offsets, c) = Last(rows[c]).id

\* the step writes one entry to the failure log and sends one message
Reported ==
    /\ Len(failureLog') = Len(failureLog) + 1
    /\ Len(sent') = Len(sent) + 1

\* the event at hand is from a wrong sender
WrongSender(c) == AtEvent(c) /\ ConsumerStep(c) /\ ~ is_from_target_sender(Row(c))

\* the code handler is given four digits while no PendingRequest exists
CodeWithoutPending(c) ==
    CodeHandlerStep(c) /\ pendingFile = NoPending /\ CODE_RE_match(Row(c).text) # <<>>

\* the code handler is given four digits that validate rejects
CodeRejected(c) == CodeHandlerStep(c) /\ ValidateStep /\ ~ lastValidate'.ok

\* C22, as stated: a wrong sender, a 4-digit code received while no
\* PendingRequest exists, and a code that is absent, expired or mismatched
\* each result in a message to the user and an entry in the failure log.
C22_AsStated ==
    [][\A c \in Consumers :
          (WrongSender(c) \/ CodeWithoutPending(c) \/ CodeRejected(c)) => Reported]_vars

\* the voice handler of c ends because the auth tool gave no code for a
\* transcript it had
GenerationFails(c) ==
    /\ pc[c] \in {"loop", "transcribe"}
    /\ pc'[c] = "code"
    /\ evStart'[c].generate = "failed"

\* the code handler of c has its code accepted and finds no transcript in the
\* pending file
RetrievalFails(c) ==
    /\ CodeHandlerStep(c)
    /\ ValidateStep
    /\ lastValidate'.ok
    /\ pending_transcript(pendingFile) = <<>>

\* C23, as stated: a code-generation failure after a successful transcription
\* and a transcript-retrieval failure after a successful validation each
\* append one entry to the failure log and send one notification to the user;
\* the step is not run again and the offset moves to the event.
C23_AsStated ==
    [][\A c \in Consumers :
          /\ (GenerationFails(c) \/ RetrievalFails(c))
                => (Reported /\ nGenerate' = nGenerate /\ executed' = executed)
          /\ (Handled(c) /\ ConsumerStep(c)) => get_offset(offsets', c) = Row(c).id]_vars

----------------------------------------------------------------------------
(* Outcomes of validate (SpecAuth) *)

\* the answer the precedence of the checks gives to a submission
Outcome(submitted) ==
    IF ~ CodeOutstanding THEN "No active code."
    ELSE IF now > lastGenerate.expires_at * Hz THEN "Code expired."
    ELSE IF strip(submitted) # lastGenerate.code THEN "Code mismatch."
    ELSE "Code valid."

\* C24: validate answers "No active code." when nothing is stored, otherwise
\* "Code expired." when now > expires_at, otherwise "Code mismatch." when the
\* stripped submission differs from the stored code, otherwise it succeeds;
\* every failing outcome leaves the stored state as it was, so an expired code
\* stays stored and is answered with "Code expired." until the next generate.
C24_ValidatePrecedence ==
    [][ ValidateStep =>
          /\ lastValidate'.message = Outcome(lastValidate'.submitted)
          /\ lastValidate'.ok <=> (lastValidate'.message = "Code valid.")
          /\ ~ lastValidate'.ok => authFile' = authFile ]_vars

\* after two or more validates, the latest met the expired code, which is
\* still stored
C24_Witness ==
    /\ nValidate >= 2
    /\ lastValidate.message = "Code expired."
    /\ authFile = CodeState(lastGenerate.code, lastGenerate.expires_at)
    /\ now > authFile.expires_at * Hz

----------------------------------------------------------------------------
(* The workflow after the code has expired (Spec) *)

\* a PendingRequest exists and the code issued for it has expired
Wedged ==
    /\ pendingFile # NoPending
    /\ authFile.kind = "code"
    /\ now > authFile.expires_at * Hz

\* C25: once the issued code has expired while a PendingRequest exists, the
\* consumer stays in awaiting_code: nothing is transcribed, issued or executed
\* any more, a validate of any code answers "Code expired.", a code event is
\* logged and reported as failed, and PendingRequest and AuthCode stay as
\* they are.
C25_WedgeAfterExpiry ==
    [][ Wedged =>
          /\ pendingFile' = pendingFile
          /\ authFile' = authFile
          /\ nTranscribe' = nTranscribe
          /\ nGenerate' = nGenerate
          /\ executed' = executed
          /\ ValidateStep =>
                (~ lastValidate'.ok /\ lastValidate'.message = "Code expired.")
          /\ \A c \in Consumers :
                (CodeHandlerStep(c) /\ CODE_RE_match(Row(c).text) # <<>>) =>
                    /\ Reported
                    /\ ValidateStep => Last(failureLog').reason = "Code expired." ]_vars

\* the voice note v2, sent with the right code as its text after the code
\* for v1 had expired, was dropped and its code refused
C25_Witness ==
    /\ Wedged
    /\ pendingFile.source_message_id = "v1"
    /\ failureLog # <<>>
    /\ Last(failureLog).reason = "Code expired."
    /\ Last(failureLog).message_id = "v2"
    /\ nTranscribe = 1
    /\ \A c \in Consumers : pc[c] = "done"

----------------------------------------------------------------------------
(* A transcription that fails (Spec) *)

\* c is between the start of handle_voice_event and set_offset for an event
InHandlers(c) == pc[c] \in {"code", "commit"}

\* the transcription tool was run for the event at hand and failed: it
\* exited non-zero or left no file, or what it left holds no text
TranscriptionFailed(c) ==
    \/ evStart[c].out = TranscribeFailed
    \/ /\ evStart[c].out # NotRun
       /\ \A i \in 1..Len(evStart[c].out) : evStart[c].out[i] = Blank

\* since handling of the event began no code was issued, no PendingRequest
\* was created, no message was sent, and the AuthCode is as it was
NoWorkflowStarted(c) ==
    /\ nGenerate = evStart[c].nGenerate
    /\ pendingFile = NoPending
    /\ evStart[c].pending = NoPending
    /\ Len(sent) = evStart[c].nSent
    /\ authFile = evStart[c].auth
    /\ executed = <<>> \/ Last(executed).id # Row(c).id

\* C26: when transcription of a voice event from the authorized sender fails
\* (non-zero exit, missing or empty output), no code is issued, no
\* PendingRequest is created, no message is sent, the stored AuthCode is
\* unchanged, and the offset moves past the event, which is not retried.
C26_TranscriptionFailure ==
    [][\A c \in Consumers :
          /\ (InHandlers(c) /\ TranscriptionFailed(c))' => NoWorkflowStarted(c)'
          /\ (Handled(c) /\ TranscriptionFailed(c) /\ ConsumerStep(c)) =>
                /\ get_offset(offsets', c) = Row(c).id
                /\ idx'[c] = idx[c] + 1
                /\ nTranscribe' = nTranscribe ]_vars

\* both handlers are through with a voice note for which the transcription
\* tool left an empty file
C26_Witness ==
    \E c \in Consumers :
        /\ Handled(c)
        /\ evStart[c].out = <<Blank>>
        /\ nTranscribe = evStart[c].nTranscribe + 1
        /\ NoWorkflowStarted(c)

----------------------------------------------------------------------------
(* Offsets of two consumers over one log (SpecRace) *)

\* the run of c ends
RunEnds(c) == pc[c] = "loop" /\ pc'[c] = "done"

\* C27: set_offset(A, s) creates or replaces only the row of consumer A, the
\* offset of every other consumer is unchanged, and the offset of a consumer
\* that never set one is 0; however the runs of two consumers interleave,
\* each run ends with the offset it reaches alone: the id of the last event
\* it fetched, or its starting offset when it fetched none.
C27_IndependentOffsets ==
    [][\A c \in RaceConsumers :
          /\ c \notin DOMAIN offsets => get_offset(offsets, c) = 0
          /\ get_offset(offsets', c) # get_offset(offsets, c) =>
                /\ ConsumerStep(c)
                /\ get_offset(offsets', c) = Row(c).id
                /\ \A b \in RaceConsumers \ {c} :
                      /\ get_offset(offsets', b) = get_offset(offsets, b)
                      /\ b \in DOMAIN offsets' <=> b \in DOMAIN offsets
          /\ RunEnds(c) =>
                get_offset(offsets, c) =
                    IF rows[c] = <<>> THEN runStart[c] ELSE Last(rows[c]).id ]_vars

\* one consumer has ended a run at event 2 while the other stands at event 1
C27_Witness ==
    /\ DOMAIN offsets = RaceConsumers
    /\ offsets["sigpro-main"] = 2
    /\ offsets["sigpro-aux"] = 1
    /\ pc["sigpro-main"] = "done"
    /\ pc["sigpro-aux"] \in {"loop", "code", "commit"}

----------------------------------------------------------------------------
(* The ingest tool (SpecIngest) *)

\* the processes that have the raw file open for append
Writing == {p \in Ingesters : ing[p].pc = "writing"}

\* every line of the raw file is a whole record, but for the record the
\* process holding the file is in the middle of
WholeRecords ==
    \A i \in 1..Len(rawFile) :
        \/ rawFile[i].kind = "json"
        \/ /\ rawFile[i].kind = "partial"
           /\ i = Len(rawFile)
           /\ \E p \in Writing : ing[p].at = i /\ ing[p].chunks % 2 = 1

\* the records of the finished run of p stand in the file one after another
AllAppended(p) ==
    /\ Len(rawFile) >= ing[p].start + Len(ing[p].objs)
    /\ \A i \in 1..Len(ing[p].objs) :
          rawFile[ing[p].start + i] = JsonLine(ing[p].objs[i])

\* C28: the ingest tool takes the exclusive write lock before it appends and
\* holds it until it exits, so at any time at most one ingest process is
\* writing to the raw file and the lines of two concurrent runs are never
\* written into each other; a run that waits for the lock gets it when the
\* other run has ended, and then appends all its records.
C28_SerializedAppend ==
    /\ [](Cardinality(Writing) <= 1 /\ Writing = writeLock)
    /\ [][rawFile' # rawFile =>
             \E p \in Writing : p \in writeLock /\ ing'[p].chunks = ing[p].chunks + 1]_vars
    /\ []WholeRecords
    /\ [](\A p \in Ingesters : ing[p].pc = "done" => AllAppended(p))
    /\ \A p \in Ingesters : (ing[p].pc = "waiting") ~> (ing[p].pc = "done")

\* the first run has appended its two records and ended; the second run,
\* which holds the lock now, is in the middle of its record
C28_Witness ==
    /\ ing["ingest-1"].pc = "done"
    /\ Len(ing["ingest-1"].objs) = 2
    /\ ing["ingest-1"].start = 0
    /\ ing["ingest-2"].pc = "writing"
    /\ ing["ingest-2"].start = 2
    /\ ing["ingest-2"].chunks = 1
    /\ Len(rawFile) = 3

----------------------------------------------------------------------------
(* Reading the raw file (SpecRotate, SpecCollector) *)

\* collector k calls ingest_file_once
IngestStep(k) == kpc[k] = "ingest" /\ kpc'[k] = "publish"

\* the lines of the file that hold a JSON object and start at or after the
\* byte `offset`
LinesFrom(file, offset) ==
    {i \in 1..Len(file) : file[i].kind = "json" /\ SizeOf(file, i - 1) >= offset}

\* the j-th smallest element of S
Nth(S, j) == CHOOSE i \in S : Cardinality({x \in S : x < i}) = j - 1

\* the objects of those lines, in the order of the file
RecordsFrom(file, offset) ==
    [j \in 1..Cardinality(LinesFrom(file, offset)) |->
        file[Nth(LinesFrom(file, offset), j)].obj]

\* C29: when the persisted byte offset is greater than the size of the raw
\* file, ingest_file_once reads the file from byte 0 and persists the new end
\* position; when the offset is <= the size it reads only from the offset
\* on; when the file does not exist it returns no records and leaves the
\* offset file unchanged.
C29_RotationHandling ==
    [][\A k \in Collectors : IngestStep(k) =>
          IF rawFile = <<>>
          THEN batch'[k] = <<>> /\ offsetFile' = offsetFile
          ELSE IF offsetFile > st_size(rawFile)
          THEN /\ batch'[k] = RecordsFrom(rawFile, 0)
               /\ offsetFile' = st_size(rawFile)
          ELSE /\ batch'[k] = RecordsFrom(rawFile, offsetFile)
               /\ offsetFile' = st_size(rawFile) ]_vars

\* after a rotation the collector found the offset beyond the end of the
\* new file, and has read the record the new file holds
C29_Witness ==
    \E k \in Collectors :
        /\ kpc[k] = "publish"
        /\ krun[k].rotated
        /\ Len(rawFile) = 1
        /\ batch[k] = <<rawFile[1].obj>>
        /\ rawFile[1].kind = "json"
        /\ offsetFile = st_size(rawFile)

\* collector k, started with --stdin-jsonl, has read its stdin
StdinStep(k) == kpc[k] \in Stopped /\ kpc'[k] = "publish"

\* collector k takes the next record of its batch
NextRecordStep(k) ==
    kpc[k] = "publish" /\ kpc'[k] = "publish" /\ batch'[k] # batch[k]

\* the run of collector k ends and prints its counters
RunEndStep(k) == kpc[k] = "publish" /\ kpc'[k] = "done"

----------------------------------------------------------------------------
(* The order of the two handlers on one event (Spec) *)

\* the voice handler of c found no pending request on the current event,
\* stored one and issued a code
IssuedForEvent(c) ==
    /\ evStart[c].generate = "ok"
    /\ evStart[c].pending = NoPending
    /\ nGenerate = evStart[c].nGenerate + 1
    /\ pendingFile.kind = "pending"
    /\ pendingFile.source_message_id = Row(c).source_message_id
    /\ authFile.kind = "code"
    /\ authFile.code = lastGenerate.code

\* the code handler of c submits the text of the current event to validate,
\* which judges it against the stored code; an accepted code executes the
\* transcript of the current event
ValidatesText(c) ==
    \/ /\ UNCHANGED <<authVars, pendingFile, executed>>
       /\ Len(failureLog') = Len(failureLog) + 1
       /\ Last(failureLog').reason = "Internal validation error."
    \/ /\ ValidateStep
       /\ lastValidate'.submitted = strip(Row(c).text)
       /\ lastValidate'.ok <=>
             (strip(Row(c).text) = authFile.code /\ now <= authFile.expires_at * Hz)
       /\ lastValidate'.ok =>
             /\ Len(executed') = Len(executed) + 1
             /\ Last(executed').id = Row(c).id
             /\ Last(executed').transcript = pendingFile.transcript
       /\ ~ lastValidate'.ok => UNCHANGED <<pendingFile, executed>>

\* C31: for every event from the authorized sender the voice handler runs
\* first and the code handler second on the same event, and only then the
\* offset moves to it; so when the voice handler found no PendingRequest,
\* stored one and issued a code for an event whose text is four digits, the
\* code handler validates that same event's text against the code just
\* issued.
C31_HandlerOrder ==
    [][ \A c \in Consumers :
          /\ ( /\ AtEvent(c)
               /\ is_from_target_sender(Row(c))
               /\ ConsumerStep(c) ) =>
                  /\ VoiceHandlerStep(c)
                  /\ idx'[c] = idx[c] /\ rows'[c] = rows[c]
                  /\ UNCHANGED offsets
          /\ pc[c] = "code" /\ ConsumerStep(c) =>
                  /\ CodeHandlerStep(c)
                  /\ idx'[c] = idx[c] /\ rows'[c] = rows[c]
                  /\ UNCHANGED offsets
          /\ Handled(c) /\ ConsumerStep(c) => get_offset(offsets', c) = Row(c).id
          /\ ( /\ CodeHandlerStep(c)
               /\ evStart[c].generate = "ok"
               /\ IsFourDigits(strip(Row(c).text)) ) =>
                  /\ IssuedForEvent(c)
                  /\ ValidatesText(c) ]_vars

\* one event carried a voice note and the code: the code issued for it was
\* accepted on the same event and its transcript executed
C31_Witness ==
    \E c \in Consumers :
       /\ Handled(c)
       /\ evStart[c].generate = "ok"
       /\ evStart[c].pending = NoPending
       /\ IsFourDigits(strip(Row(c).text))
       /\ lastValidate.ok
       /\ lastValidate.submitted = lastGenerate.code
       /\ ExecutedFor(c)
       /\ pendingFile = NoPending

----------------------------------------------------------------------------
(* A stored code and the pending request (Spec) *)

\* every consumer is between two events: no handler is running and the
\* offset of the last handled event is stored
AtEventBoundary == \A c \in Consumers : pc[c] \in {"idle", "loop", "done"}

\* the auth file holds a code, live or expired
CodeStored == authFile.kind = "code"

\* C32: when only the consumer's workflow issues codes and no process is
\* killed, at every event boundary a stored AuthCode implies that a
\* PendingRequest exists: a code is issued only in the step that also stores
\* the PendingRequest, and the PendingRequest is deleted only in the step
\* whose validation accepted and cleared the code.
C32_CodeImpliesPending ==
    /\ [](AtEventBoundary /\ CodeStored => pendingFile.kind = "pending")
    /\ [][ /\ nGenerate' # nGenerate =>
                /\ pendingFile = NoPending
                /\ pendingFile'.kind = "pending"
                /\ CodeStored'
           /\ (pendingFile # NoPending /\ pendingFile' = NoPending) =>
                /\ ValidateStep
                /\ lastValidate'.ok
                /\ CodeStored
                /\ ~ CodeStored' ]_vars

\* between two events an expired code is still stored, with its PendingRequest
C32_Witness ==
    /\ AtEventBoundary
    /\ CodeStored
    /\ now > authFile.expires_at * Hz
    /\ pendingFile.kind = "pending"
    /\ nValidate > 0
    /\ lastValidate.message = "Code expired."

----------------------------------------------------------------------------
(* Executions per issued code, with kills inside the code handler (SpecReplay) *)

\* _execute_in_main is invoked
ExecutionStep == Len(executed') = Len(executed) + 1

\* C33: for one sequential consumer each issued code leads to at most one
\* invocation of _execute_in_main, also when the consumer is killed at any
\* point while it handles the code event and the event is handled again by
\* the next run: when the execution starts, validate has accepted the code
\* and left no code stored.
C33_OneExecutionPerCode ==
    /\ [](\A i, j \in 1..Len(executed) :
             executed[i].issue = executed[j].issue => i = j)
    /\ [][ ExecutionStep =>
             /\ lastValidate.ok
             /\ lastValidate.submitted = Last(executed').code
             /\ consumed
             /\ ~ CodeStored
             /\ Last(executed').issue = nGenerate ]_vars

\* the consumer was killed inside the code handler after the execution had
\* started; the next run handled the event again and validate refused the
\* code, so the transcript was executed once
C33_Witness ==
    \E c \in Consumers :
       /\ Handled(c)
       /\ nCrashes >= 1
       /\ Len(executed) = 1
       /\ Row(c).id = executed[1].id
       /\ pendingFile.kind = "pending"
       /\ ~ lastValidate.ok
       /\ lastValidate.message = "No active code."
       /\ lastValidate.submitted = executed[1].code

----------------------------------------------------------------------------
(* The legacy loop: a new voice note and code entry (SpecLoop) *)

\* a run of sigpro_loop returns from _process_new_voice_note
VoiceNoteStep == loopRun'.n = loopRun.n + 1

\* the run found a new unprocessed voice attachment
FoundVoiceNote(run) == run.found # <<>>

\* the transcription tool left a non-blank text for the run
Transcribed(run) == run.out \notin {NotRun, TranscribeFailed} /\ strip(run.out) # <<>>

\* C34: a run of sigpro_loop that finds a new unprocessed voice attachment
\* does not look at the PendingRequest: it marks the attachment as processed
\* and, when the transcription succeeds, has a new code issued and writes
\* the new transcript over the pending one, whatever was pending; the run
\* ends without code entry, so it validates and executes nothing.  A code is
\* validated only in a run that found no new voice note.
C34_LastVoiceWins ==
    [][ /\ (VoiceNoteStep /\ FoundVoiceNote(loopRun')) =>
             /\ loopPc' = "idle"
             /\ UNCHANGED <<nValidate, lastValidate, executed>>
             /\ loopRun'.found[1] \notin {Photo.path}
             /\ lastAttachment' = basename(loopRun'.found[1])
             /\ nTranscribe' = nTranscribe + 1
             /\ Transcribed(loopRun') <=> loopRun'.generate # "not run"
             /\ loopRun'.generate = "ok" =>
                   /\ nGenerate' = nGenerate + 1
                   /\ authFile'.kind = "code"
                   /\ authFile'.code = lastGenerate'.code
                   /\ pendingFile'.kind = "pending"
                   /\ pendingFile'.transcript = strip(loopRun'.out)
                   /\ pendingFile'.source_file = basename(loopRun'.found[1])
             /\ loopRun'.generate # "ok" => UNCHANGED <<authFile, nGenerate, pendingFile>>
        /\ (nValidate' # nValidate \/ executed' # executed) =>
             /\ loopPc = "code"
             /\ ~ FoundVoiceNote(loopRun)
             /\ UNCHANGED <<nGenerate, nTranscribe, lastAttachment>> ]_vars

\* while a transcript was pending and its code stored, a run found a newer
\* voice note: it issued a new code and replaced the pending transcript,
\* and validated nothing
C34_Witness ==
    /\ loopPc = "idle"
    /\ FoundVoiceNote(loopRun)
    /\ loopRun.generate = "ok"
    /\ loopRun.pending.kind = "pending"
    /\ lastGenerate.replaced.kind = "code"
    /\ pendingFile.kind = "pending"
    /\ pendingFile.source_file # loopRun.pending.source_file
    /\ pendingFile.source_file = basename(loopRun.found[1])
    /\ nGenerate >= 2
    /\ nValidate = 0

====
